---- MODULE Spec2Model ----
(***************************************************************************)
(* TUSO: orchestrated saga (pedidos) over RabbitMQ with two participants,  *)
(* inventario (stock reservations, expiry sweep) and pagos (simulated      *)
(* payment).  Every await of the JavaScript handlers is one step of the    *)
(* model; a PostgreSQL transaction publishes its writes at COMMIT and      *)
(* holds the row locks it took until then (READ COMMITTED).                *)
(***************************************************************************)
EXTENDS Integers, Sequences, FiniteSets, Bags

(* ------------------------------ bounds --------------------------------- *)
\* saga ids available, products seeded, largest seeded stock, the seeded stock
\* of the runs in which stock is scarce, sweep runs observed, deliveries the
\* broker may requeue
MaxSagas == 2
NumProductos == 1
MaxStock == 2
StockEscaso == 1
MaxSweeps == 3
MaxReentregas == 1
\* steps a saga log may hold, deliveries in flight included, while the
\* participants of SpecOrquestador still answer
MaxPasos == 4
\* commands waiting on saga_events when a participant is observed alone
MaxComandos == 3

(* ------------------------- program constants --------------------------- *)
\* inventario/src/app.js:102  new Date(Date.now() + 10 * 60 * 1000)
HOLD_MS == 10 * 60 * 1000
\* inventario/src/app.js:209  setInterval(..., 5 * 60 * 1000)
SWEEP_EVERY_MS == 5 * 60 * 1000
\* inventario/src/app.js:201  rt.expira_en > NOW() - INTERVAL '1 minute'
GRACE_MS == 60 * 1000

SagaState == [INICIADA |-> "INICIADA",
              INVENTARIO_RESERVADO |-> "INVENTARIO_RESERVADO",
              PAGO_PROCESADO |-> "PAGO_PROCESADO",
              COMPLETADA |-> "COMPLETADA",
              CANCELADA |-> "CANCELADA",
              COMPENSANDO |-> "COMPENSANDO"]

\* faulty variant of metodosValidos: one more method is let through
metodosValidosAmpliados == {"tarjeta_credito", "tarjeta_debito", "pse", "efectivo", "bitcoin"}

\* pagos/src/app.js:75  const metodosValidos = [...]
metodosValidos == {"tarjeta_credito", "tarjeta_debito", "pse", "efectivo"}

(* --------------------------- input domains ----------------------------- *)
Sagas == 1..MaxSagas
Productos == 1..NumProductos
\* a product id that was never seeded
ProductoDesconocido == NumProductos + 1
\* quantities a request may ask for: up to one more than a scarce stock
Cantidades == 1..(StockEscaso + 1)
\* one method of the allow-list and one outside it
MetodosPago == {"tarjeta_credito", "bitcoin"}
\* the instants at which the clock is sampled: every sweep time and one
\* instant inside the one-minute window that precedes it
Instantes == {k * SWEEP_EVERY_MS : k \in 0..MaxSweeps}
               \cup {k * SWEEP_EVERY_MS - (GRACE_MS \div 2) : k \in 1..MaxSweeps}

NULL == "NULL"
NoRow == [estado |-> "NONE"]

VARIABLES
  solicitudes,        \* POST /pedidos requests the clients have yet to send
  pedidos,            \* pedidos_db.pedidos: saga id -> row (NoRow when absent)
  saga_estados,       \* pedidos_db.saga_estados: saga id -> its steps in insertion order
  httpH,              \* POST /pedidos requests being served
  saga_events,        \* queue saga_events (ready messages)
  pedidos_responses,  \* queue pedidos_responses (ready messages)
  orqH,               \* pedidos: deliveries of pedidos_responses not yet acknowledged
  invH,               \* inventario: deliveries of saga_events not yet acknowledged
  pagH,               \* pagos: deliveries of saga_events not yet acknowledged
  stock_disponible,   \* inventario_db.productos.stock_disponible (committed)
  stockInicial,       \* the seeded stock_disponible of every product
  reservas_temporales,\* inventario_db.reservas_temporales (committed rows, by id)
  transacciones,      \* pagos_db.transacciones (rows by id)
  now,                \* wall clock, ms
  sweep,              \* the expiry timer: [pc, proximo]
  reentregas          \* deliveries requeued so far

vars == <<solicitudes, pedidos, saga_estados, httpH, saga_events, pedidos_responses, orqH,
          invH, pagH, stock_disponible, stockInicial, reservas_temporales, transacciones,
          now, sweep, reentregas>>

pedidosVars == <<pedidos, saga_estados, httpH, orqH>>
inventarioVars == <<invH, stock_disponible, stockInicial, reservas_temporales>>
pagosVars == <<pagH, transacciones>>
timeVars == <<now, sweep>>

(* ------------------------------ helpers -------------------------------- *)
\* the handlers in flight of a service are a bag: h starts, h ends, h moves on
Start(handlers, h) == handlers (+) SetToBag({h})
End(handlers, h) == handlers (-) SetToBag({h})
Step(handlers, h, g) == (handlers (-) SetToBag({h})) (+) SetToBag({g})

\* productos never lose rows: a product exists iff it was seeded
ProductoExiste(p) == p \in Productos

\* faulty variant of RowLocked: no transaction ever waits for a row lock
RowLockedNunca(p) == FALSE

\* a row of productos is locked while an open transaction of a handler has
\* selected it FOR UPDATE or updated it
RowLocked(p) == \E h \in BagToSet(invH) : h.lock = p

(* ===================== pedidos (orchestrator) ========================== *)
\* publishSagaEvent / channel.sendToQueue: the message is appended to the queue
publishSagaEvent(queue, sagaId, evento, payload) ==
  Append(queue, [sagaId |-> sagaId, evento |-> evento, payload |-> payload])

\* faulty variant of updateSagaState: the new step takes the place of the last one
updateSagaStateSobrescribe(log, sagaId, paso, estado) ==
  [log EXCEPT ![sagaId] = Append(SubSeq(@, 1, Len(@) - 1),
                                 [paso |-> paso, estado |-> estado,
                                  payload |-> NULL, error_message |-> NULL])]

\* INSERT INTO saga_estados (saga_id, paso, estado): the other columns stay NULL
updateSagaState(log, sagaId, paso, estado) ==
  [log EXCEPT ![sagaId] = Append(@, [paso |-> paso, estado |-> estado,
                                      payload |-> NULL, error_message |-> NULL])]

\* UPDATE pedidos SET estado = $1 WHERE saga_id = $2: no row, no change
updatePedidoState(rows, sagaId, estado) ==
  IF sagaId \in DOMAIN rows /\ rows[sagaId] # NoRow
    THEN [rows EXCEPT ![sagaId].estado = estado]
    ELSE rows

\* uuidv4(): an id no saga has yet (the ids are handed out in increasing order)
SagasUsadas == {s \in Sagas : pedidos[s] # NoRow}
NuevoSagaId == Cardinality(SagasUsadas) + 1

\* POST /pedidos, up to the first INSERT: the pedido row in INICIADA
PostPedidos(productoId, cantidad, metodoPago) ==
  /\ solicitudes > 0
  /\ NuevoSagaId \in Sagas
  /\ solicitudes' = solicitudes - 1
  /\ LET sagaId == NuevoSagaId IN
       /\ pedidos' = [pedidos EXCEPT ![sagaId] =
                        [estado |-> SagaState.INICIADA, producto_id |-> productoId,
                         cantidad |-> cantidad]]
       /\ httpH' = Start(httpH, [sagaId |-> sagaId, pc |-> "paso",
                                 body |-> [productoId |-> productoId, cantidad |-> cantidad,
                                           pedidoId |-> sagaId, metodoPago |-> metodoPago]])
  /\ UNCHANGED <<saga_estados, orqH, saga_events, pedidos_responses, inventarioVars,
                 pagosVars, timeVars, reentregas>>

\* the fields POST /pedidos reads from the body of the request
Campos == {"productoId", "cantidad", "metodoPago"}

\* POST /pedidos with a body that lacks the fields faltan: a missing productoId
\* or cantidad is NULL in the INSERT INTO pedidos, which the NOT NULL columns
\* refuse (catch: 500, nothing written); a missing metodoPago is undefined in
\* the payload of the command and the request goes on
PostPedidosIncompleto(productoId, cantidad, metodoPago, faltan) ==
  IF faltan \cap {"productoId", "cantidad"} # {}
    THEN /\ solicitudes > 0
         /\ solicitudes' = solicitudes - 1
         /\ UNCHANGED <<pedidosVars, saga_events, pedidos_responses, inventarioVars,
                        pagosVars, timeVars, reentregas>>
    ELSE PostPedidos(productoId, cantidad,
                     IF "metodoPago" \in faltan THEN NULL ELSE metodoPago)

\* POST /pedidos: INSERT INTO saga_estados ('CREAR_PEDIDO', 'COMPLETADO')
PostPaso(h) ==
  /\ h.pc = "paso"
  /\ saga_estados' = updateSagaState(saga_estados, h.sagaId, "CREAR_PEDIDO", "COMPLETADO")
  /\ httpH' = Step(httpH, h, [h EXCEPT !.pc = "publicar"])
  /\ UNCHANGED <<solicitudes, pedidos, orqH, saga_events, pedidos_responses, inventarioVars,
                 pagosVars, timeVars, reentregas>>

\* faulty variant of PostPublicar: the command is published twice
PostPublicarDoble(h) ==
  /\ h.pc = "publicar"
  /\ saga_events' = publishSagaEvent(
                       publishSagaEvent(saga_events, h.sagaId, "RESERVAR_INVENTARIO", h.body),
                       h.sagaId, "RESERVAR_INVENTARIO", h.body)
  /\ httpH' = End(httpH, h)
  /\ UNCHANGED <<solicitudes, pedidos, saga_estados, orqH, pedidos_responses, inventarioVars,
                 pagosVars, timeVars, reentregas>>

\* POST /pedidos: publish RESERVAR_INVENTARIO, then answer 201
PostPublicar(h) ==
  /\ h.pc = "publicar"
  /\ saga_events' = publishSagaEvent(saga_events, h.sagaId, "RESERVAR_INVENTARIO", h.body)
  /\ httpH' = End(httpH, h)
  /\ UNCHANGED <<solicitudes, pedidos, saga_estados, orqH, pedidos_responses, inventarioVars,
                 pagosVars, timeVars, reentregas>>

\* processSagaResponse: the step logged, the status set and the command emitted
\* for a successful response, and the reason of the compensation for a failed one
PasoDe == [INVENTARIO_RESERVADO |-> "RESERVAR_INVENTARIO",
           PAGO_PROCESADO |-> "PROCESAR_PAGO",
           PEDIDO_CONFIRMADO |-> "CONFIRMAR_PEDIDO"]
EstadoDe == [INVENTARIO_RESERVADO |-> SagaState.INVENTARIO_RESERVADO,
             PAGO_PROCESADO |-> SagaState.PAGO_PROCESADO,
             PEDIDO_CONFIRMADO |-> SagaState.COMPLETADA]
\* faulty variant of ComandoDe: the two forward commands exchanged
ComandoDeCambiado == [INVENTARIO_RESERVADO |-> "CONFIRMAR_PEDIDO",
                      PAGO_PROCESADO |-> "PROCESAR_PAGO"]
ComandoDe == [INVENTARIO_RESERVADO |-> "PROCESAR_PAGO",
              PAGO_PROCESADO |-> "CONFIRMAR_PEDIDO"]
\* faulty variant of RazonDe: the two reasons exchanged
RazonDeCambiada == [INVENTARIO_RESERVADO |-> "PAGO_RECHAZADO",
                    PAGO_PROCESADO |-> "INVENTARIO_NO_DISPONIBLE"]
RazonDe == [INVENTARIO_RESERVADO |-> "INVENTARIO_NO_DISPONIBLE",
            PAGO_PROCESADO |-> "PAGO_RECHAZADO"]

\* faulty variant of processSagaResponse: the success flag is not looked at
processSagaResponseCiego(event) ==
  CASE event.evento \in {"PEDIDO_CONFIRMADO", "INVENTARIO_RESERVADO", "PAGO_PROCESADO"} ->
         [pc |-> "paso", razon |-> NULL]
    [] OTHER -> [pc |-> "ack", razon |-> NULL]

\* the switch of processSagaResponse: where the handler of a response starts
processSagaResponse(event) ==
  CASE event.evento = "PEDIDO_CONFIRMADO" -> [pc |-> "paso", razon |-> NULL]
    [] event.evento \in DOMAIN RazonDe /\ event.success -> [pc |-> "paso", razon |-> NULL]
    [] event.evento \in DOMAIN RazonDe /\ ~event.success ->
         [pc |-> "compensando", razon |-> RazonDe[event.evento]]
    [] OTHER -> [pc |-> "ack", razon |-> NULL]

\* channel.consume('pedidos_responses'): the next response is handed to a handler
consumeSagaEvents ==
  /\ pedidos_responses # <<>>
  /\ LET event == Head(pedidos_responses)
         start == processSagaResponse(event) IN
       orqH' = Start(orqH, [msg |-> event, pc |-> start.pc, razon |-> start.razon])
  /\ pedidos_responses' = Tail(pedidos_responses)
  /\ UNCHANGED <<solicitudes, pedidos, saga_estados, httpH, saga_events, inventarioVars,
                 pagosVars, timeVars, reentregas>>

\* success branch, first await: updateSagaState(sagaId, <paso>, 'COMPLETADO')
OrqPaso(h) ==
  /\ h.pc = "paso"
  /\ saga_estados' = updateSagaState(saga_estados, h.msg.sagaId, PasoDe[h.msg.evento],
                                     "COMPLETADO")
  /\ orqH' = Step(orqH, h, [h EXCEPT !.pc = "estado"])
  /\ UNCHANGED <<solicitudes, pedidos, httpH, saga_events, pedidos_responses, inventarioVars,
                 pagosVars, timeVars, reentregas>>

\* success branch, second await: updatePedidoState(sagaId, <estado>)
OrqEstado(h) ==
  /\ h.pc = "estado"
  /\ pedidos' = updatePedidoState(pedidos, h.msg.sagaId, EstadoDe[h.msg.evento])
  /\ orqH' = Step(orqH, h, [h EXCEPT !.pc = IF h.msg.evento \in DOMAIN ComandoDe
                                              THEN "publicar" ELSE "ack"])
  /\ UNCHANGED <<solicitudes, saga_estados, httpH, saga_events, pedidos_responses,
                 inventarioVars, pagosVars, timeVars, reentregas>>

\* success branch, third await: publishSagaEvent(sagaId, <next command>, payload)
OrqPublicar(h) ==
  /\ h.pc = "publicar"
  /\ saga_events' = publishSagaEvent(saga_events, h.msg.sagaId, ComandoDe[h.msg.evento],
                                     h.msg.payload)
  /\ orqH' = Step(orqH, h, [h EXCEPT !.pc = "ack"])
  /\ UNCHANGED <<solicitudes, pedidos, saga_estados, httpH, pedidos_responses,
                 inventarioVars, pagosVars, timeVars, reentregas>>

\* compensateSaga, first await: updatePedidoState(sagaId, COMPENSANDO)
CompensarCompensando(h) ==
  /\ h.pc = "compensando"
  /\ pedidos' = updatePedidoState(pedidos, h.msg.sagaId, SagaState.COMPENSANDO)
  /\ orqH' = Step(orqH, h, [h EXCEPT !.pc = "compensarPago"])
  /\ UNCHANGED <<solicitudes, saga_estados, httpH, saga_events, pedidos_responses,
                 inventarioVars, pagosVars, timeVars, reentregas>>

\* faulty variant of CompensarPago: COMPENSAR_PAGO only for a saga whose payment ran
CompensarPagoCondicional(h) ==
  /\ h.pc = "compensarPago"
  /\ saga_events' = IF h.msg.evento = "PAGO_PROCESADO"
                      THEN publishSagaEvent(saga_events, h.msg.sagaId, "COMPENSAR_PAGO",
                                            [razon |-> h.razon])
                      ELSE saga_events
  /\ orqH' = Step(orqH, h, [h EXCEPT !.pc = "liberarInventario"])
  /\ UNCHANGED <<solicitudes, pedidos, saga_estados, httpH, pedidos_responses,
                 inventarioVars, pagosVars, timeVars, reentregas>>

\* compensateSaga, second await: publishSagaEvent(sagaId, 'COMPENSAR_PAGO', {razon})
CompensarPago(h) ==
  /\ h.pc = "compensarPago"
  /\ saga_events' = publishSagaEvent(saga_events, h.msg.sagaId, "COMPENSAR_PAGO",
                                     [razon |-> h.razon])
  /\ orqH' = Step(orqH, h, [h EXCEPT !.pc = "liberarInventario"])
  /\ UNCHANGED <<solicitudes, pedidos, saga_estados, httpH, pedidos_responses,
                 inventarioVars, pagosVars, timeVars, reentregas>>

\* compensateSaga, third await: publishSagaEvent(sagaId, 'LIBERAR_INVENTARIO', {razon})
CompensarInventario(h) ==
  /\ h.pc = "liberarInventario"
  /\ saga_events' = publishSagaEvent(saga_events, h.msg.sagaId, "LIBERAR_INVENTARIO",
                                     [razon |-> h.razon])
  /\ orqH' = Step(orqH, h, [h EXCEPT !.pc = "cancelada"])
  /\ UNCHANGED <<solicitudes, pedidos, saga_estados, httpH, pedidos_responses,
                 inventarioVars, pagosVars, timeVars, reentregas>>

\* compensateSaga, fourth await: updatePedidoState(sagaId, CANCELADA)
CompensarCancelada(h) ==
  /\ h.pc = "cancelada"
  /\ pedidos' = updatePedidoState(pedidos, h.msg.sagaId, SagaState.CANCELADA)
  /\ orqH' = Step(orqH, h, [h EXCEPT !.pc = "pasoCompensacion"])
  /\ UNCHANGED <<solicitudes, saga_estados, httpH, saga_events, pedidos_responses,
                 inventarioVars, pagosVars, timeVars, reentregas>>

\* compensateSaga, fifth await: updateSagaState(sagaId, 'COMPENSACION', 'COMPLETADO')
CompensarPaso(h) ==
  /\ h.pc = "pasoCompensacion"
  /\ saga_estados' = updateSagaState(saga_estados, h.msg.sagaId, "COMPENSACION",
                                     "COMPLETADO")
  /\ orqH' = Step(orqH, h, [h EXCEPT !.pc = "ack"])
  /\ UNCHANGED <<solicitudes, pedidos, httpH, saga_events, pedidos_responses, inventarioVars,
                 pagosVars, timeVars, reentregas>>

\* channel.ack(msg) after processSagaResponse returned
OrqAck(h) ==
  /\ h.pc = "ack"
  /\ orqH' = End(orqH, h)
  /\ UNCHANGED <<solicitudes, pedidos, saga_estados, httpH, saga_events, pedidos_responses,
                 inventarioVars, pagosVars, timeVars, reentregas>>

\* the awaits of processSagaResponse and of compensateSaga: each is one query of
\* the store or one publish on the bus, and each can reject
Awaits == {"paso", "estado", "publicar", "compensando", "compensarPago",
           "liberarInventario", "cancelada", "pasoCompensacion"}

\* an await inside the try of processSagaResponse rejects: nothing is written,
\* the catch logs the error and starts compensateSaga(sagaId, 'ERROR_INTERNO')
OrqFalla(h) ==
  /\ h.pc \in Awaits
  /\ h.razon # "ERROR_INTERNO"
  /\ orqH' = Step(orqH, h, [h EXCEPT !.pc = "compensando", !.razon = "ERROR_INTERNO"])
  /\ UNCHANGED <<solicitudes, pedidos, saga_estados, httpH, saga_events, pedidos_responses,
                 inventarioVars, pagosVars, timeVars, reentregas>>

\* an await of the compensateSaga called from the catch rejects: no handler is
\* around it, the promise of the consume callback rejects and channel.ack(msg)
\* is never reached
OrqFallaCatch(h) ==
  /\ h.pc \in Awaits
  /\ h.razon = "ERROR_INTERNO"
  /\ orqH' = Step(orqH, h, [h EXCEPT !.pc = "propagada"])
  /\ UNCHANGED <<solicitudes, pedidos, saga_estados, httpH, saga_events, pedidos_responses,
                 inventarioVars, pagosVars, timeVars, reentregas>>

\* POST /pedidos: the INSERT INTO saga_estados or the publish rejects: the catch
\* answers 500 'Error interno'; what the earlier awaits wrote stays (each query
\* is its own transaction, nothing is undone)
PostFalla(h) ==
  /\ h.pc \in {"paso", "publicar"}
  /\ httpH' = End(httpH, h)
  /\ UNCHANGED <<solicitudes, pedidos, saga_estados, saga_events, orqH, pedidos_responses,
                 inventarioVars, pagosVars, timeVars, reentregas>>

(* ========================= inventario ================================== *)
\* enviarRespuesta: the response is appended to pedidos_responses
enviarRespuesta(queue, sagaId, evento, success, payload, servicio) ==
  Append(queue, [sagaId |-> sagaId, evento |-> evento, success |-> success,
                 payload |-> payload, servicio |-> servicio])

\* channel.consume('saga_events') of inventario: the events of inventario start
\* procesarEventoInventario, every other event is acknowledged as it is
InventarioConsume ==
  /\ saga_events # <<>>
  /\ LET event == Head(saga_events) IN
       invH' = IF event.evento = "RESERVAR_INVENTARIO" \/ event.evento = "LIBERAR_INVENTARIO"
                 THEN Start(invH, [msg |-> event,
                                   pc |-> IF event.evento = "RESERVAR_INVENTARIO"
                                            THEN "select" ELSE "buscar",
                                   lock |-> 0, reserva |-> 0, expira_en |-> 0,
                                   success |-> FALSE])
                 ELSE invH
  /\ saga_events' = Tail(saga_events)
  /\ UNCHANGED <<solicitudes, pedidosVars, pedidos_responses, stock_disponible, stockInicial,
                 reservas_temporales, pagosVars, timeVars, reentregas>>

\* faulty variant of ReservarSelect: the comparison lets one unit too many through
ReservarSelectHolgado(h) ==
  /\ h.pc = "select"
  /\ LET p == h.msg.payload.productoId
         cantidad == h.msg.payload.cantidad IN
       IF ~ProductoExiste(p)
         THEN invH' = Step(invH, h, [h EXCEPT !.pc = "rollbackError"])
         ELSE /\ ~RowLocked(p)
              /\ invH' = Step(invH, h, [h EXCEPT !.lock = p,
                                                 !.pc = IF stock_disponible[p] + 1 < cantidad
                                                          THEN "rollback" ELSE "update"])
  /\ UNCHANGED <<solicitudes, pedidosVars, saga_events, pedidos_responses, stock_disponible,
                 stockInicial, reservas_temporales, pagosVars, timeVars, reentregas>>

\* faulty variant of ReservarSelect: a plain SELECT, without FOR UPDATE; the row lock is
\* neither waited for nor taken
ReservarSelectSinLock(h) ==
  /\ h.pc = "select"
  /\ LET p == h.msg.payload.productoId
         cantidad == h.msg.payload.cantidad IN
       IF ~ProductoExiste(p)
         THEN invH' = Step(invH, h, [h EXCEPT !.pc = "rollbackError"])
         ELSE invH' = Step(invH, h, [h EXCEPT !.pc = IF stock_disponible[p] < cantidad
                                                       THEN "rollback" ELSE "update"])
  /\ UNCHANGED <<solicitudes, pedidosVars, saga_events, pedidos_responses, stock_disponible,
                 stockInicial, reservas_temporales, pagosVars, timeVars, reentregas>>

\* reservarStock: BEGIN; SELECT stock_disponible ... FOR UPDATE waits for the row
\* lock, takes it and compares the stock read with the quantity asked
ReservarSelect(h) ==
  /\ h.pc = "select"
  /\ LET p == h.msg.payload.productoId
         cantidad == h.msg.payload.cantidad IN
       IF ~ProductoExiste(p)
         THEN invH' = Step(invH, h, [h EXCEPT !.pc = "rollbackError"])
         ELSE /\ ~RowLocked(p)
              /\ invH' = Step(invH, h, [h EXCEPT !.lock = p,
                                                 !.pc = IF stock_disponible[p] < cantidad
                                                          THEN "rollback" ELSE "update"])
  /\ UNCHANGED <<solicitudes, pedidosVars, saga_events, pedidos_responses, stock_disponible,
                 stockInicial, reservas_temporales, pagosVars, timeVars, reentregas>>

\* reservarStock: ROLLBACK and return false (stock insufficient)
ReservarRollback(h) ==
  /\ h.pc = "rollback"
  /\ invH' = Step(invH, h, [h EXCEPT !.lock = 0, !.success = FALSE, !.pc = "responder"])
  /\ UNCHANGED <<solicitudes, pedidosVars, saga_events, pedidos_responses, stock_disponible,
                 stockInicial, reservas_temporales, pagosVars, timeVars, reentregas>>

\* reservarStock: catch: ROLLBACK and rethrow; procesarEventoInventario then
\* answers INVENTARIO_RESERVADO false with the error as payload
ReservarRollbackError(h) ==
  /\ h.pc = "rollbackError"
  /\ invH' = Step(invH, h, [h EXCEPT !.lock = 0, !.success = FALSE, !.pc = "responderError"])
  /\ UNCHANGED <<solicitudes, pedidosVars, saga_events, pedidos_responses, stock_disponible,
                 stockInicial, reservas_temporales, pagosVars, timeVars, reentregas>>

\* reservarStock: UPDATE productos SET stock_disponible = stock_disponible - $1
\* (takes the row lock when the transaction does not hold it yet)
ReservarUpdate(h) ==
  /\ h.pc = "update"
  /\ LET p == h.msg.payload.productoId IN
       /\ h.lock = p \/ ~RowLocked(p)
       /\ invH' = Step(invH, h, [h EXCEPT !.lock = p, !.pc = "insert"])
  /\ UNCHANGED <<solicitudes, pedidosVars, saga_events, pedidos_responses, stock_disponible,
                 stockInicial, reservas_temporales, pagosVars, timeVars, reentregas>>

\* reservarStock: INSERT INTO reservas_temporales (..., expira_en = now + 10 min)
ReservarInsert(h) ==
  /\ h.pc = "insert"
  /\ invH' = Step(invH, h, [h EXCEPT !.expira_en = now + HOLD_MS, !.pc = "commit"])
  /\ UNCHANGED <<solicitudes, pedidosVars, saga_events, pedidos_responses, stock_disponible,
                 stockInicial, reservas_temporales, pagosVars, timeVars, reentregas>>

\* reservarStock: COMMIT publishes the decrement and the ACTIVA reservation
\* together and frees the row lock; return true
ReservarCommit(h) ==
  /\ h.pc = "commit"
  /\ h.msg.evento = "RESERVAR_INVENTARIO"
  /\ LET p == h.msg.payload.productoId
         cantidad == h.msg.payload.cantidad IN
       /\ stock_disponible' = [stock_disponible EXCEPT ![p] = @ - cantidad]
       /\ reservas_temporales' = Append(reservas_temporales,
            [saga_id |-> h.msg.sagaId, producto_id |-> p,
             cantidad_reservada |-> cantidad, expira_en |-> h.expira_en,
             estado |-> "ACTIVA", devLiberar |-> 0, devSweep |-> 0])
  /\ invH' = Step(invH, h, [h EXCEPT !.lock = 0, !.success = TRUE, !.pc = "responder"])
  /\ UNCHANGED <<solicitudes, pedidosVars, saga_events, pedidos_responses, stockInicial,
                 pagosVars, timeVars, reentregas>>

\* procesarEventoInventario: enviarRespuesta(sagaId, 'INVENTARIO_RESERVADO', success, payload)
InvResponder(h) ==
  /\ h.pc \in {"responder", "responderError"}
  /\ pedidos_responses' =
       enviarRespuesta(pedidos_responses, h.msg.sagaId, "INVENTARIO_RESERVADO", h.success,
                       IF h.pc = "responder" THEN h.msg.payload
                                             ELSE [error |-> "Producto no encontrado"],
                       "inventario")
  /\ invH' = Step(invH, h, [h EXCEPT !.pc = "ack"])
  /\ UNCHANGED <<solicitudes, pedidosVars, saga_events, stock_disponible, stockInicial,
                 reservas_temporales, pagosVars, timeVars, reentregas>>

\* the ids of the committed reservations of product p in a status
ReservasDe(p, estado) ==
  {r \in DOMAIN reservas_temporales : /\ reservas_temporales[r].producto_id = p
                                       /\ reservas_temporales[r].estado = estado}

\* WHERE saga_id = $1 AND estado = 'ACTIVA'
ReservasActivas(sagaId) ==
  {r \in DOMAIN reservas_temporales : /\ reservas_temporales[r].saga_id = sagaId
                                       /\ reservas_temporales[r].estado = "ACTIVA"}

\* faulty variant of LiberarSelect: the SELECT does not filter on estado
LiberarSelectCualquiera(h) ==
  /\ h.pc = "buscar"
  /\ LET rows == {r \in DOMAIN reservas_temporales :
                    reservas_temporales[r].saga_id = h.msg.sagaId} IN
       IF rows = {}
         THEN invH' = Step(invH, h, [h EXCEPT !.pc = "commit"])
         ELSE \E r \in rows : invH' = Step(invH, h, [h EXCEPT !.reserva = r, !.pc = "devolver"])
  /\ UNCHANGED <<solicitudes, pedidosVars, saga_events, pedidos_responses, stock_disponible,
                 stockInicial, reservas_temporales, pagosVars, timeVars, reentregas>>

\* liberarStock: BEGIN; SELECT * FROM reservas_temporales WHERE saga_id = $1 AND
\* estado = 'ACTIVA' (a plain read: no lock); reserva = rows[0]
LiberarSelect(h) ==
  /\ h.pc = "buscar"
  /\ LET rows == ReservasActivas(h.msg.sagaId) IN
       IF rows = {}
         THEN invH' = Step(invH, h, [h EXCEPT !.pc = "commit"])
         ELSE \E r \in rows : invH' = Step(invH, h, [h EXCEPT !.reserva = r, !.pc = "devolver"])
  /\ UNCHANGED <<solicitudes, pedidosVars, saga_events, pedidos_responses, stock_disponible,
                 stockInicial, reservas_temporales, pagosVars, timeVars, reentregas>>

\* liberarStock: UPDATE productos SET stock_disponible = stock_disponible + $1
\* waits for the row lock of the product and takes it
LiberarDevolver(h) ==
  /\ h.pc = "devolver"
  /\ LET p == reservas_temporales[h.reserva].producto_id IN
       /\ ~RowLocked(p)
       /\ invH' = Step(invH, h, [h EXCEPT !.lock = p, !.pc = "marcar"])
  /\ UNCHANGED <<solicitudes, pedidosVars, saga_events, pedidos_responses, stock_disponible,
                 stockInicial, reservas_temporales, pagosVars, timeVars, reentregas>>

\* liberarStock: UPDATE reservas_temporales SET estado = 'LIBERADA' WHERE saga_id = $2
LiberarMarcar(h) ==
  /\ h.pc = "marcar"
  /\ invH' = Step(invH, h, [h EXCEPT !.pc = "commit"])
  /\ UNCHANGED <<solicitudes, pedidosVars, saga_events, pedidos_responses, stock_disponible,
                 stockInicial, reservas_temporales, pagosVars, timeVars, reentregas>>

\* liberarStock: COMMIT publishes the increment and the LIBERADA rows together and
\* frees the row lock; no response is sent for LIBERAR_INVENTARIO
LiberarCommit(h) ==
  /\ h.pc = "commit"
  /\ h.msg.evento = "LIBERAR_INVENTARIO"
  /\ LET r == h.reserva IN
       IF r = 0
         THEN UNCHANGED <<stock_disponible, reservas_temporales>>
         ELSE /\ stock_disponible' =
                   [stock_disponible EXCEPT ![reservas_temporales[r].producto_id] =
                      @ + reservas_temporales[r].cantidad_reservada]
              /\ reservas_temporales' =
                   [k \in DOMAIN reservas_temporales |->
                      LET row == reservas_temporales[k] IN
                        IF row.saga_id = h.msg.sagaId
                          THEN [row EXCEPT !.estado = "LIBERADA",
                                           !.devLiberar = IF k = r THEN @ + 1 ELSE @]
                          ELSE row]
  /\ invH' = Step(invH, h, [h EXCEPT !.lock = 0, !.pc = "ack"])
  /\ UNCHANGED <<solicitudes, pedidosVars, saga_events, pedidos_responses, stockInicial,
                 pagosVars, timeVars, reentregas>>

\* channel.ack(msg) of inventario
InvAck(h) ==
  /\ h.pc = "ack"
  /\ invH' = End(invH, h)
  /\ UNCHANGED <<solicitudes, pedidosVars, saga_events, pedidos_responses, stock_disponible,
                 stockInicial, reservas_temporales, pagosVars, timeVars, reentregas>>

\* the reservation rows an open liberarStock transaction has updated and still locks
ReservaLocked(r) ==
  \E h \in BagToSet(invH) : /\ h.msg.evento = "LIBERAR_INVENTARIO"
                            /\ h.pc = "commit"
                            /\ h.reserva # 0
                            /\ reservas_temporales[r].saga_id = h.msg.sagaId

\* setInterval callback, first statement: UPDATE reservas_temporales SET estado =
\* 'EXPIRADA' WHERE expira_en < NOW() AND estado = 'ACTIVA'; result.rowCount
SweepMarcar ==
  /\ sweep.pc = "idle"
  /\ now = sweep.proximo
  /\ LET rows == {r \in DOMAIN reservas_temporales :
                        /\ reservas_temporales[r].expira_en < now
                        /\ reservas_temporales[r].estado = "ACTIVA"} IN
       /\ \A r \in rows : ~ReservaLocked(r)
       /\ reservas_temporales' =
            [k \in DOMAIN reservas_temporales |->
               IF k \in rows THEN [reservas_temporales[k] EXCEPT !.estado = "EXPIRADA"]
                             ELSE reservas_temporales[k]]
       /\ sweep' = [pc |-> IF Cardinality(rows) > 0 THEN "devolver" ELSE "idle",
                    proximo |-> sweep.proximo + SWEEP_EVERY_MS]
  /\ UNCHANGED <<solicitudes, pedidosVars, saga_events, pedidos_responses, invH,
                 stock_disponible, stockInicial, pagosVars, now, reentregas>>

\* the rows the second statement of the sweep joins to product p
SweepJoin(p) ==
  {r \in ReservasDe(p, "EXPIRADA") : reservas_temporales[r].expira_en > now - GRACE_MS}

\* setInterval callback, second statement: UPDATE productos SET stock_disponible =
\* stock_disponible + rt.cantidad_reservada FROM reservas_temporales rt WHERE ...
\* : a product joined to several rows is updated once, from one of them
SweepDevolver ==
  /\ sweep.pc = "devolver"
  /\ LET joined == {p \in Productos : SweepJoin(p) # {}} IN
       /\ \A p \in joined : ~RowLocked(p)
       /\ \E used \in [joined -> DOMAIN reservas_temporales] :
            /\ \A p \in joined : used[p] \in SweepJoin(p)
            /\ stock_disponible' =
                 [p \in Productos |->
                    IF p \in joined
                      THEN stock_disponible[p] + reservas_temporales[used[p]].cantidad_reservada
                      ELSE stock_disponible[p]]
            /\ reservas_temporales' =
                 [k \in DOMAIN reservas_temporales |->
                    IF \E p \in joined : used[p] = k
                      THEN [reservas_temporales[k] EXCEPT !.devSweep = @ + 1]
                      ELSE reservas_temporales[k]]
  /\ sweep' = [sweep EXCEPT !.pc = "idle"]
  /\ UNCHANGED <<solicitudes, pedidosVars, saga_events, pedidos_responses, invH,
                 stockInicial, pagosVars, now, reentregas>>

\* time passes, up to the instant the timer is due
Tick ==
  /\ now < sweep.proximo
  /\ \E t \in Instantes :
       /\ t > now
       /\ \A u \in Instantes : u > now => t <= u
       /\ now' = t
  /\ UNCHANGED <<solicitudes, pedidosVars, saga_events, pedidos_responses, inventarioVars,
                 pagosVars, sweep, reentregas>>

(* ============================ pagos ==================================== *)
\* the ids of the transactions of a saga in a status
TransaccionesDe(sagaId, estado) ==
  {t \in DOMAIN transacciones : /\ transacciones[t].saga_id = sagaId
                                 /\ transacciones[t].estado = estado}

\* channel.consume('saga_events') of pagos: the events of pagos start
\* procesarEventoPago, every other event is acknowledged as it is
PagosConsume ==
  /\ saga_events # <<>>
  /\ LET event == Head(saga_events) IN
       pagH' = IF event.evento = "PROCESAR_PAGO" \/ event.evento = "COMPENSAR_PAGO"
                 THEN Start(pagH, [msg |-> event,
                                   pc |-> IF event.evento = "PROCESAR_PAGO"
                                            THEN "procesar" ELSE "buscar",
                                   transaccion |-> 0, success |-> FALSE])
                 ELSE pagH
  /\ saga_events' = Tail(saga_events)
  /\ UNCHANGED <<solicitudes, pedidosVars, pedidos_responses, inventarioVars, transacciones,
                 timeVars, reentregas>>

\* faulty variant of procesarPago: the row is written but true is returned
\* whatever the gateway decided
procesarPagoOptimista(h, exitoso) ==
  /\ h.pc = "procesar"
  /\ IF h.msg.payload.metodoPago \notin metodosValidos
       THEN /\ ~exitoso
            /\ UNCHANGED transacciones
       ELSE transacciones' = Append(transacciones,
              [saga_id |-> h.msg.sagaId, metodo_pago |-> h.msg.payload.metodoPago,
               estado |-> IF exitoso THEN "APROBADA" ELSE "RECHAZADA"])
  /\ pagH' = Step(pagH, h, [h EXCEPT !.success = TRUE, !.pc = "responder"])
  /\ UNCHANGED <<solicitudes, pedidosVars, saga_events, pedidos_responses, inventarioVars,
                 timeVars, reentregas>>

\* procesarPago: a method outside metodosValidos returns false at once; otherwise
\* the simulated gateway decides (Math.random() > 0.1) and one row is inserted
procesarPago(h, exitoso) ==
  /\ h.pc = "procesar"
  /\ IF h.msg.payload.metodoPago \notin metodosValidos
       THEN /\ ~exitoso
            /\ UNCHANGED transacciones
       ELSE transacciones' = Append(transacciones,
              [saga_id |-> h.msg.sagaId, metodo_pago |-> h.msg.payload.metodoPago,
               estado |-> IF exitoso THEN "APROBADA" ELSE "RECHAZADA"])
  /\ pagH' = Step(pagH, h, [h EXCEPT !.success = exitoso, !.pc = "responder"])
  /\ UNCHANGED <<solicitudes, pedidosVars, saga_events, pedidos_responses, inventarioVars,
                 timeVars, reentregas>>

\* procesarEventoPago: enviarRespuesta(sagaId, 'PAGO_PROCESADO', success, payload)
PagResponder(h) ==
  /\ h.pc = "responder"
  /\ pedidos_responses' = enviarRespuesta(pedidos_responses, h.msg.sagaId, "PAGO_PROCESADO",
                                          h.success, h.msg.payload, "pagos")
  /\ pagH' = Step(pagH, h, [h EXCEPT !.pc = "ack"])
  /\ UNCHANGED <<solicitudes, pedidosVars, saga_events, inventarioVars, transacciones,
                 timeVars, reentregas>>

\* compensarPago: SELECT * FROM transacciones WHERE saga_id = $1 AND estado =
\* 'APROBADA'; transaccion = rows[0]
compensarPagoSelect(h) ==
  /\ h.pc = "buscar"
  /\ LET rows == TransaccionesDe(h.msg.sagaId, "APROBADA") IN
       IF rows = {}
         THEN pagH' = Step(pagH, h, [h EXCEPT !.pc = "ack"])
         ELSE \E t \in rows :
                pagH' = Step(pagH, h, [h EXCEPT !.transaccion = t, !.pc = "revertir"])
  /\ UNCHANGED <<solicitudes, pedidosVars, saga_events, pedidos_responses, inventarioVars,
                 transacciones, timeVars, reentregas>>

\* compensarPago: UPDATE transacciones SET estado = 'REVERTIDA' WHERE transaction_id = $2
compensarPagoUpdate(h) ==
  /\ h.pc = "revertir"
  /\ transacciones' = [transacciones EXCEPT ![h.transaccion].estado = "REVERTIDA"]
  /\ pagH' = Step(pagH, h, [h EXCEPT !.pc = "ack"])
  /\ UNCHANGED <<solicitudes, pedidosVars, saga_events, pedidos_responses, inventarioVars,
                 timeVars, reentregas>>

\* channel.ack(msg) of pagos
PagAck(h) ==
  /\ h.pc = "ack"
  /\ pagH' = End(pagH, h)
  /\ UNCHANGED <<solicitudes, pedidosVars, saga_events, pedidos_responses, inventarioVars,
                 transacciones, timeVars, reentregas>>

(* ================= rejected awaits of the participants ================ *)
\* reservarStock: the UPDATE or the INSERT rejects: catch, ROLLBACK, rethrow
InvFallaReservar(h) ==
  /\ h.pc \in {"update", "insert"}
  /\ invH' = Step(invH, h, [h EXCEPT !.pc = "rollbackError"])
  /\ UNCHANGED <<solicitudes, pedidosVars, saga_events, pedidos_responses, stock_disponible,
                 stockInicial, reservas_temporales, pagosVars, timeVars, reentregas>>

\* liberarStock: a query rejects: catch, ROLLBACK (nothing is published, the
\* row lock is freed), rethrow; the catch of procesarEventoInventario is next
InvFallaLiberar(h) ==
  /\ h.msg.evento = "LIBERAR_INVENTARIO"
  /\ h.pc \in {"buscar", "devolver", "marcar"}
  /\ invH' = Step(invH, h, [h EXCEPT !.lock = 0, !.reserva = 0, !.pc = "responderFallo"])
  /\ UNCHANGED <<solicitudes, pedidosVars, saga_events, pedidos_responses, stock_disponible,
                 stockInicial, reservas_temporales, pagosVars, timeVars, reentregas>>

\* procesarEventoInventario: the enviarRespuesta inside the try rejects (nothing
\* was sent); the catch of procesarEventoInventario is next
InvFallaResponder(h) ==
  /\ h.pc = "responder"
  /\ invH' = Step(invH, h, [h EXCEPT !.pc = "responderFallo"])
  /\ UNCHANGED <<solicitudes, pedidosVars, saga_events, pedidos_responses, stock_disponible,
                 stockInicial, reservas_temporales, pagosVars, timeVars, reentregas>>

\* procesarEventoInventario: catch (error): enviarRespuesta(sagaId,
\* 'INVENTARIO_RESERVADO', false, { error: error.message })
InvResponderFallo(h) ==
  /\ h.pc = "responderFallo"
  /\ pedidos_responses' =
       enviarRespuesta(pedidos_responses, h.msg.sagaId, "INVENTARIO_RESERVADO", FALSE,
                       [error |-> "await rejected"], "inventario")
  /\ invH' = Step(invH, h, [h EXCEPT !.pc = "ack"])
  /\ UNCHANGED <<solicitudes, pedidosVars, saga_events, stock_disponible, stockInicial,
                 reservas_temporales, pagosVars, timeVars, reentregas>>

\* procesarEventoInventario: the enviarRespuesta of the catch rejects too: the
\* promise of the consume callback rejects, the delivery is never acknowledged
InvFallaCatch(h) ==
  /\ h.pc \in {"responderError", "responderFallo"}
  /\ invH' = Step(invH, h, [h EXCEPT !.pc = "propagada"])
  /\ UNCHANGED <<solicitudes, pedidosVars, saga_events, pedidos_responses, stock_disponible,
                 stockInicial, reservas_temporales, pagosVars, timeVars, reentregas>>

\* procesarPago: obtenerPrecioProducto or the INSERT rejects: the catch of
\* procesarPago returns false, no row is written
PagFallaProcesar(h) ==
  /\ h.pc = "procesar"
  /\ h.msg.payload.metodoPago \in metodosValidos
  /\ pagH' = Step(pagH, h, [h EXCEPT !.success = FALSE, !.pc = "responder"])
  /\ UNCHANGED <<solicitudes, pedidosVars, saga_events, pedidos_responses, inventarioVars,
                 transacciones, timeVars, reentregas>>

\* compensarPago: the SELECT or the UPDATE rejects: catch, log, rethrow; the
\* catch of procesarEventoPago is next
PagFallaCompensar(h) ==
  /\ h.pc \in {"buscar", "revertir"}
  /\ pagH' = Step(pagH, h, [h EXCEPT !.pc = "responderFallo"])
  /\ UNCHANGED <<solicitudes, pedidosVars, saga_events, pedidos_responses, inventarioVars,
                 transacciones, timeVars, reentregas>>

\* procesarEventoPago: the enviarRespuesta inside the try rejects (nothing was
\* sent); the catch of procesarEventoPago is next
PagFallaResponder(h) ==
  /\ h.pc = "responder"
  /\ pagH' = Step(pagH, h, [h EXCEPT !.pc = "responderFallo"])
  /\ UNCHANGED <<solicitudes, pedidosVars, saga_events, pedidos_responses, inventarioVars,
                 transacciones, timeVars, reentregas>>

\* procesarEventoPago: catch (error): enviarRespuesta(sagaId, 'PAGO_PROCESADO',
\* false, { error: error.message })
PagResponderFallo(h) ==
  /\ h.pc = "responderFallo"
  /\ pedidos_responses' =
       enviarRespuesta(pedidos_responses, h.msg.sagaId, "PAGO_PROCESADO", FALSE,
                       [error |-> "await rejected"], "pagos")
  /\ pagH' = Step(pagH, h, [h EXCEPT !.pc = "ack"])
  /\ UNCHANGED <<solicitudes, pedidosVars, saga_events, inventarioVars, transacciones,
                 timeVars, reentregas>>

\* procesarEventoPago: the enviarRespuesta of the catch rejects too: the promise
\* of the consume callback rejects, the delivery is never acknowledged
PagFallaCatch(h) ==
  /\ h.pc = "responderFallo"
  /\ pagH' = Step(pagH, h, [h EXCEPT !.pc = "propagada"])
  /\ UNCHANGED <<solicitudes, pedidosVars, saga_events, pedidos_responses, inventarioVars,
                 transacciones, timeVars, reentregas>>

(* ===================== at-least-once delivery ========================== *)
\* the channel is lost after the handler returned and before the ack reached the
\* broker: the delivery is requeued at the head of its queue (redelivered)
OrqRequeue(h) ==
  /\ h.pc = "ack"
  /\ reentregas < MaxReentregas
  /\ pedidos_responses' = <<h.msg>> \o pedidos_responses
  /\ orqH' = End(orqH, h)
  /\ reentregas' = reentregas + 1
  /\ UNCHANGED <<solicitudes, pedidos, saga_estados, httpH, saga_events, inventarioVars,
                 pagosVars, timeVars>>

InvRequeue(h) ==
  /\ h.pc = "ack"
  /\ reentregas < MaxReentregas
  /\ saga_events' = <<h.msg>> \o saga_events
  /\ invH' = End(invH, h)
  /\ reentregas' = reentregas + 1
  /\ UNCHANGED <<solicitudes, pedidosVars, pedidos_responses, stock_disponible, stockInicial,
                 reservas_temporales, pagosVars, timeVars>>

PagRequeue(h) ==
  /\ h.pc = "ack"
  /\ reentregas < MaxReentregas
  /\ saga_events' = <<h.msg>> \o saga_events
  /\ pagH' = End(pagH, h)
  /\ reentregas' = reentregas + 1
  /\ UNCHANGED <<solicitudes, pedidosVars, pedidos_responses, inventarioVars, transacciones,
                 timeVars>>

(* ========================= specifications ============================== *)
\* the state once the three services are up: empty queues and tables, the seeded
\* products, the first sweep due one interval after start
InitComun ==
  /\ pedidos = [s \in Sagas |-> NoRow]
  /\ saga_estados = [s \in Sagas |-> <<>>]
  /\ httpH = EmptyBag
  /\ saga_events = <<>>
  /\ pedidos_responses = <<>>
  /\ orqH = EmptyBag
  /\ invH = EmptyBag
  /\ pagH = EmptyBag
  /\ reservas_temporales = <<>>
  /\ transacciones = <<>>
  /\ now = 0
  /\ sweep = [pc |-> "idle", proximo |-> SWEEP_EVERY_MS]
  /\ reentregas = 0
  /\ stock_disponible = stockInicial

Crear(PS, CS, MS) == \E p \in PS, c \in CS, m \in MS : PostPedidos(p, c, m)

Alta == \E h \in BagToSet(httpH) : PostPaso(h) \/ PostPublicar(h)

Orquestador ==
  \/ consumeSagaEvents
  \/ \E h \in BagToSet(orqH) :
       \/ OrqPaso(h) \/ OrqEstado(h) \/ OrqPublicar(h)
       \/ CompensarCompensando(h) \/ CompensarPago(h) \/ CompensarInventario(h)
       \/ CompensarCancelada(h) \/ CompensarPaso(h)
       \/ OrqAck(h)

Reserva ==
  \/ InventarioConsume
  \/ \E h \in BagToSet(invH) :
       \/ ReservarSelect(h) \/ ReservarRollback(h) \/ ReservarUpdate(h)
       \/ ReservarInsert(h) \/ ReservarCommit(h) \/ InvResponder(h)
       \/ InvAck(h)

ReservaError == \E h \in BagToSet(invH) : ReservarRollbackError(h)

Liberacion ==
  \E h \in BagToSet(invH) :
    LiberarSelect(h) \/ LiberarDevolver(h) \/ LiberarMarcar(h) \/ LiberarCommit(h)

Limpieza == SweepMarcar \/ SweepDevolver \/ Tick

Pagos ==
  \/ PagosConsume
  \/ \E h \in BagToSet(pagH) :
       \/ \E exitoso \in BOOLEAN : procesarPago(h, exitoso)
       \/ PagResponder(h)
       \/ compensarPagoSelect(h) \/ compensarPagoUpdate(h)
       \/ PagAck(h)

Requeue ==
  \/ \E h \in BagToSet(orqH) : OrqRequeue(h)
  \/ \E h \in BagToSet(invH) : InvRequeue(h)
  \/ \E h \in BagToSet(pagH) : PagRequeue(h)

\* Spec: one purchase through the three services, every delivery at least once;
\* the run ends before the first tick of the sampled clock
Init ==
  /\ solicitudes = 1
  /\ stockInicial = [p \in Productos |-> StockEscaso]
  /\ InitComun

Next ==
  \/ Crear(Productos, Cantidades, MetodosPago)
  \/ Alta \/ Orquestador \/ Reserva \/ Liberacion \/ Pagos \/ Requeue

Spec == Init /\ [][Next]_vars

\* SpecExpira: one purchase, every delivery once, while the clock runs and the
\* expiry timer fires
NextExpira ==
  \/ Crear(Productos \cup {ProductoDesconocido}, Cantidades, MetodosPago)
  \/ Alta \/ Orquestador \/ Reserva \/ ReservaError \/ Liberacion \/ Pagos \/ Limpieza

SpecExpira == Init /\ [][NextExpira]_vars

\* SpecConcurrente: as many purchases of quantity 1 as there are saga ids, racing
\* for a scarce stock, every delivery once
InitConcurrente ==
  /\ solicitudes = MaxSagas
  /\ stockInicial = [p \in Productos |-> StockEscaso]
  /\ InitComun

NextConcurrente ==
  \/ Crear(Productos, {1}, {"tarjeta_credito"})
  \/ Alta \/ Orquestador \/ Reserva \/ Liberacion \/ Pagos

SpecConcurrente == InitConcurrente /\ [][NextConcurrente]_vars

\* SpecExclusividad: N purchases of quantity 1 whose RESERVAR_INVENTARIO commands
\* the inventory handles concurrently, on a stock of S
InitExclusividad ==
  /\ solicitudes \in 1..MaxSagas
  /\ stockInicial \in [Productos -> 0..MaxStock]
  /\ InitComun

NextExclusividad ==
  \/ Crear(Productos, {1}, {"tarjeta_credito"})
  \/ Alta \/ Reserva

SpecExclusividad == InitExclusividad /\ [][NextExclusividad]_vars

\* SpecOrquestador: the orchestrator against participants that answer the
\* commands on saga_events in any order, with any outcome and any number of times
\* (nothing is removed from saga_events, so every command emitted stays visible).
\* A participant answers command i: RESERVAR_INVENTARIO with INVENTARIO_RESERVADO,
\* PROCESAR_PAGO with PAGO_PROCESADO, the payload of the command as payload
ResponderComando(i, success) ==
  /\ i \in DOMAIN saga_events
  /\ saga_events[i].evento \in {"RESERVAR_INVENTARIO", "PROCESAR_PAGO"}
  /\ Len(saga_estados[saga_events[i].sagaId]) + Len(pedidos_responses)
       + BagCardinality(orqH) < MaxPasos
  /\ pedidos_responses' =
       enviarRespuesta(pedidos_responses, saga_events[i].sagaId,
                       IF saga_events[i].evento = "RESERVAR_INVENTARIO"
                         THEN "INVENTARIO_RESERVADO" ELSE "PAGO_PROCESADO",
                       success, saga_events[i].payload,
                       IF saga_events[i].evento = "RESERVAR_INVENTARIO"
                         THEN "inventario" ELSE "pagos")
  /\ UNCHANGED <<solicitudes, pedidosVars, saga_events, inventarioVars, pagosVars, timeVars,
                 reentregas>>

\* the confirming handler the saga flow expects: it answers CONFIRMAR_PEDIDO
\* with PEDIDO_CONFIRMADO
ConfirmarPedido(i) ==
  /\ i \in DOMAIN saga_events
  /\ saga_events[i].evento = "CONFIRMAR_PEDIDO"
  /\ Len(saga_estados[saga_events[i].sagaId]) + Len(pedidos_responses)
       + BagCardinality(orqH) < MaxPasos
  /\ pedidos_responses' =
       enviarRespuesta(pedidos_responses, saga_events[i].sagaId, "PEDIDO_CONFIRMADO",
                       TRUE, saga_events[i].payload, "pedidos")
  /\ UNCHANGED <<solicitudes, pedidosVars, saga_events, inventarioVars, pagosVars, timeVars,
                 reentregas>>

Participantes ==
  \E i \in DOMAIN saga_events :
    \/ \E success \in BOOLEAN : ResponderComando(i, success)
    \/ ConfirmarPedido(i)

NextOrquestador ==
  \/ Crear(Productos, {1}, {"tarjeta_credito"})
  \/ Alta \/ Orquestador \/ Participantes

SpecOrquestador == Init /\ [][NextOrquestador]_vars

\* SpecAlta: as many POST /pedidos as there are saga ids, with any subset of the
\* fields of the body missing; no participant and no response handler runs
CrearIncompleto ==
  \E p \in Productos, c \in Cantidades, m \in MetodosPago, faltan \in SUBSET Campos :
    PostPedidosIncompleto(p, c, m, faltan)

NextAlta == CrearIncompleto \/ Alta

SpecAlta == InitConcurrente /\ [][NextAlta]_vars

\* the orders in which the broker can hand back the deliveries in B
Ordenes(B) ==
  {s \in [1..BagCardinality(B) -> BagToSet(B)] :
     \A e \in BagToSet(B) : Cardinality({i \in DOMAIN s : s[i] = e}) = CopiesIn(e, B)}

\* the unhandled rejection ends the process (the default of the runtime from
\* Node 15 on; before, the process goes on and the delivery stays unacked):
\* every request and handler of pedidos is lost and the broker requeues the
\* unacked deliveries for the restarted service
OrqCaida ==
  /\ \E h \in BagToSet(orqH) : h.pc = "propagada"
  /\ reentregas < MaxReentregas
  /\ \E s \in Ordenes(orqH) :
       pedidos_responses' = [i \in DOMAIN s |-> s[i].msg] \o pedidos_responses
  /\ orqH' = EmptyBag
  /\ httpH' = EmptyBag
  /\ reentregas' = reentregas + 1
  /\ UNCHANGED <<solicitudes, pedidos, saga_estados, saga_events, inventarioVars, pagosVars,
                 timeVars>>

Fallos ==
  \/ \E h \in BagToSet(orqH) : OrqFalla(h) \/ OrqFallaCatch(h)
  \/ OrqCaida

\* a participant answers while the orchestrator is idle: the responses are
\* handled one at a time
ParticipantesEnSerie ==
  /\ orqH = EmptyBag
  /\ pedidos_responses = <<>>
  /\ Participantes

\* SpecFallos: the orchestrator of one purchase, any response to any command,
\* one response at a time, and any await of the handling of a response may
\* reject
NextFallos ==
  \/ Crear(Productos, {1}, {"tarjeta_credito"})
  \/ Alta
  \/ Orquestador
  \/ ParticipantesEnSerie
  \/ Fallos

SpecFallos == Init /\ [][NextFallos]_vars

\* SpecPagos: pagos alone, in front of a queue that already holds up to
\* MaxComandos of its commands, for any sagas, in any order, repeated or not;
\* it handles them concurrently
ComandosPago ==
  {[sagaId |-> s, evento |-> "PROCESAR_PAGO",
    payload |-> [productoId |-> 1, cantidad |-> 1, pedidoId |-> s, metodoPago |-> m]] :
     s \in Sagas, m \in MetodosPago}
  \cup {[sagaId |-> s, evento |-> "COMPENSAR_PAGO", payload |-> [razon |-> "PAGO_RECHAZADO"]] :
          s \in Sagas}

InitPagos ==
  /\ solicitudes = 0
  /\ stockInicial = [p \in Productos |-> StockEscaso]
  /\ stock_disponible = stockInicial
  /\ pedidos = [s \in Sagas |-> NoRow]
  /\ saga_estados = [s \in Sagas |-> <<>>]
  /\ httpH = EmptyBag
  /\ \E n \in 1..MaxComandos : saga_events \in [1..n -> ComandosPago]
  /\ pedidos_responses = <<>>
  /\ orqH = EmptyBag
  /\ invH = EmptyBag
  /\ pagH = EmptyBag
  /\ reservas_temporales = <<>>
  /\ transacciones = <<>>
  /\ now = 0
  /\ sweep = [pc |-> "idle", proximo |-> SWEEP_EVERY_MS]
  /\ reentregas = 0

SpecPagos == InitPagos /\ [][Pagos]_vars

\* SpecInventario: inventario alone, in front of a queue that already holds up
\* to MaxComandos of its commands, for any sagas, in any order, repeated or
\* not; it handles them concurrently while the clock runs and the timer fires
ComandosInventario ==
  {[sagaId |-> s, evento |-> "RESERVAR_INVENTARIO",
    payload |-> [productoId |-> p, cantidad |-> 1, pedidoId |-> s,
                 metodoPago |-> "tarjeta_credito"]] :
     s \in Sagas, p \in Productos \cup {ProductoDesconocido}}
  \cup {[sagaId |-> s, evento |-> "LIBERAR_INVENTARIO",
         payload |-> [razon |-> "PAGO_RECHAZADO"]] : s \in Sagas}

InitInventario ==
  /\ solicitudes = 0
  /\ stockInicial \in [Productos -> 0..MaxStock]
  /\ stock_disponible = stockInicial
  /\ pedidos = [s \in Sagas |-> NoRow]
  /\ saga_estados = [s \in Sagas |-> <<>>]
  /\ httpH = EmptyBag
  /\ \E n \in 1..MaxComandos : saga_events \in [1..n -> ComandosInventario]
  /\ pedidos_responses = <<>>
  /\ orqH = EmptyBag
  /\ invH = EmptyBag
  /\ pagH = EmptyBag
  /\ reservas_temporales = <<>>
  /\ transacciones = <<>>
  /\ now = 0
  /\ sweep = [pc |-> "idle", proximo |-> SWEEP_EVERY_MS]
  /\ reentregas = 0

NextInventario == Reserva \/ ReservaError \/ Liberacion \/ Limpieza

SpecInventario == InitInventario /\ [][NextInventario]_vars

\* SpecAltaFallos: the requests of SpecAlta, and any await of POST /pedidos
\* after the first may reject
AltaFallos == \E h \in BagToSet(httpH) : PostFalla(h)

NextAltaFallos == CrearIncompleto \/ Alta \/ AltaFallos

SpecAltaFallos == InitConcurrente /\ [][NextAltaFallos]_vars

\* SpecParticipantesFallos: inventario and pagos on their common queue, which
\* already holds up to MaxComandos commands of one saga, and any await of
\* their handlers may reject
FallosInventario ==
  \E h \in BagToSet(invH) :
    \/ InvFallaReservar(h) \/ InvFallaLiberar(h) \/ InvFallaResponder(h)
    \/ InvResponderFallo(h) \/ InvFallaCatch(h)

FallosPagos ==
  \E h \in BagToSet(pagH) :
    \/ PagFallaProcesar(h) \/ PagFallaCompensar(h) \/ PagFallaResponder(h)
    \/ PagResponderFallo(h) \/ PagFallaCatch(h)

InitParticipantesFallos ==
  /\ solicitudes = 0
  /\ stockInicial = [p \in Productos |-> StockEscaso]
  /\ stock_disponible = stockInicial
  /\ pedidos = [s \in Sagas |-> NoRow]
  /\ saga_estados = [s \in Sagas |-> <<>>]
  /\ httpH = EmptyBag
  /\ \E n \in 1..MaxComandos :
       saga_events \in [1..n -> {c \in ComandosInventario \cup ComandosPago : c.sagaId = 1}]
  /\ pedidos_responses = <<>>
  /\ orqH = EmptyBag
  /\ invH = EmptyBag
  /\ pagH = EmptyBag
  /\ reservas_temporales = <<>>
  /\ transacciones = <<>>
  /\ now = 0
  /\ sweep = [pc |-> "idle", proximo |-> SWEEP_EVERY_MS]
  /\ reentregas = 0

NextParticipantesFallos ==
  \/ Reserva \/ ReservaError \/ Liberacion \/ FallosInventario
  \/ Pagos \/ FallosPagos

SpecParticipantesFallos == InitParticipantesFallos /\ [][NextParticipantesFallos]_vars


(* ============================ properties =============================== *)
RECURSIVE SumaCantidades(_)
SumaCantidades(rows) ==
  IF rows = {} THEN 0
  ELSE LET r == CHOOSE x \in rows : TRUE IN
         reservas_temporales[r].cantidad_reservada + SumaCantidades(rows \ {r})

\* nothing is queued, being served or unacknowledged, and no request is to come
Quiescente ==
  /\ solicitudes = 0
  /\ httpH = EmptyBag /\ orqH = EmptyBag /\ invH = EmptyBag /\ pagH = EmptyBag
  /\ saga_events = <<>> /\ pedidos_responses = <<>>

\* the status changes the two paths of the saga allow
Transiciones ==
  {<<"NONE", SagaState.INICIADA>>,
   <<SagaState.INICIADA, SagaState.INVENTARIO_RESERVADO>>,
   <<SagaState.INVENTARIO_RESERVADO, SagaState.PAGO_PROCESADO>>,
   <<SagaState.PAGO_PROCESADO, SagaState.COMPLETADA>>,
   <<SagaState.INICIADA, SagaState.COMPENSANDO>>,
   <<SagaState.INVENTARIO_RESERVADO, SagaState.COMPENSANDO>>,
   <<SagaState.PAGO_PROCESADO, SagaState.COMPENSANDO>>,
   <<SagaState.COMPENSANDO, SagaState.CANCELADA>>}

\* C1: saga monotonicity. Every change of the status of an order follows one of
\* the two paths INICIADA -> INVENTARIO_RESERVADO -> PAGO_PROCESADO -> COMPLETADA
\* or INICIADA/forward -> COMPENSANDO -> CANCELADA: it never goes back to a
\* forward state and never leaves COMPLETADA or CANCELADA, redeliveries included.
C1_SagaMonotona ==
  [][\A s \in Sagas :
       \/ pedidos'[s].estado = pedidos[s].estado
       \/ <<pedidos[s].estado, pedidos'[s].estado>> \in Transiciones]_vars

\* C2: stock conservation. Between sweep runs and inventory transactions, for
\* every product, available stock plus the quantities of its ACTIVA reservations equals the seeded stock
\* (no code path records a confirmed sale).
C2_ConservacionStock ==
  (sweep.pc = "idle" /\ invH = EmptyBag) =>
    \A p \in Productos :
      stock_disponible[p]
        + SumaCantidades(ReservasDe(p, "ACTIVA"))
        = stockInicial[p]

RespuestasDe(p) ==
  {i \in DOMAIN pedidos_responses : pedidos_responses[i].payload.productoId = p}
ExitosDe(p) == {i \in RespuestasDe(p) : pedidos_responses[i].success}
Minimo(a, b) == IF a < b THEN a ELSE b
\* every request was sent and every reservation has answered and was acknowledged
Respondidas ==
  /\ solicitudes = 0
  /\ httpH = EmptyBag /\ invH = EmptyBag
  /\ saga_events = <<>>

\* C4: reservation exclusivity. Once N concurrent reservations of quantity 1 on a
\* product seeded with stock S have all answered, exactly min(N, S) answered
\* success, the other N - min(N, S) answered failure, and the stock is S - min(N, S).
C4_Exclusividad ==
  Respondidas =>
    \A p \in Productos :
      LET N == Cardinality({s \in SagasUsadas : pedidos[s].producto_id = p})
          S == stockInicial[p]
      IN /\ Cardinality(RespuestasDe(p)) = N
         /\ Cardinality(ExitosDe(p)) = Minimo(N, S)
         /\ Cardinality(RespuestasDe(p) \ ExitosDe(p)) = N - Minimo(N, S)
         /\ stock_disponible[p] = S - Minimo(N, S)

\* C4 witness: all reservations have answered, there were more of them than
\* units in stock, and both outcomes occurred.
C4_Witness ==
  /\ Respondidas
  /\ \E p \in Productos :
       /\ Cardinality(RespuestasDe(p)) > stockInicial[p]
       /\ ExitosDe(p) # {}
       /\ RespuestasDe(p) \ ExitosDe(p) # {}
       /\ stock_disponible[p] = 0

\* C5: release and the expiry sweep are race-safe on the same reservation: the
\* quantity of a reservation is added back at most once, by release or by the
\* sweep, and the reservation ends LIBERADA or EXPIRADA according to which of the
\* two added it back.
C5_ReleaseSweepRaceSafe ==
  \A r \in DOMAIN reservas_temporales :
    LET row == reservas_temporales[r] IN
      /\ row.devLiberar + row.devSweep <= 1
      /\ row.devLiberar >= 1 => row.estado = "LIBERADA"
      /\ row.devSweep >= 1 => row.estado = "EXPIRADA"

\* C6: compensation idempotence. However many LIBERAR_INVENTARIO commands of a
\* saga are handled, in sequence or concurrently, release adds the quantity of a
\* reservation back to the stock at most once.
C6_LiberarIdempotente ==
  \A r \in DOMAIN reservas_temporales : reservas_temporales[r].devLiberar <= 1

\* C7: expiry reclamation. Once a sweep run is over, every reservation that was
\* never released and that a sweep run found expired - whatever the time since
\* its expiry - is EXPIRADA with its quantity added back to the stock exactly once.
C7_ExpiryReclamation ==
  (sweep.pc = "idle" /\ invH = EmptyBag) =>
    \A r \in DOMAIN reservas_temporales :
      LET row == reservas_temporales[r] IN
        (row.estado = "EXPIRADA" /\ row.devLiberar = 0) => row.devSweep = 1

\* C8: no command is acknowledged unhandled: whenever a delivery leaves
\* saga_events, the handler of the participant responsible for its event starts.
C8_NoSilentDrop ==
  [][Len(saga_events') < Len(saga_events) => (invH' # invH \/ pagH' # pagH)]_vars

\* C9: scenario 1. When everything about a purchase has been delivered once and
\* handled, a purchase whose payment was approved is COMPLETADA and the stock
\* is lower than seeded by its quantity.
C9_Scenario1 ==
  (Quiescente /\ reentregas = 0) =>
    \A s \in SagasUsadas :
      TransaccionesDe(s, "APROBADA") # {} =>
        /\ pedidos[s].estado = SagaState.COMPLETADA
        /\ stock_disponible[pedidos[s].producto_id]
             = stockInicial[pedidos[s].producto_id] - pedidos[s].cantidad

\* C10: scenario 3. When everything about a purchase has been delivered once and
\* handled, a purchase whose payment was rejected is CANCELADA and the stock is
\* back at its value before the reservation.
C10_Scenario3 ==
  (Quiescente /\ reentregas = 0) =>
    \A s \in SagasUsadas :
      TransaccionesDe(s, "RECHAZADA") # {} =>
        /\ pedidos[s].estado = SagaState.CANCELADA
        /\ stock_disponible[pedidos[s].producto_id] = stockInicial[pedidos[s].producto_id]

\* C11: scenario 2. When everything about a purchase has been delivered once and
\* handled, a purchase of more units than the product has is CANCELADA, its
\* reservation step was never logged (so no PROCESAR_PAGO was emitted for it) and
\* the stock is what it was at the start.
C11_Scenario2 ==
  (Quiescente /\ reentregas = 0) =>
    \A s \in SagasUsadas :
      (/\ ProductoExiste(pedidos[s].producto_id)
       /\ pedidos[s].cantidad > stockInicial[pedidos[s].producto_id]) =>
        /\ pedidos[s].estado = SagaState.CANCELADA
        /\ \A i \in DOMAIN saga_estados[s] : saga_estados[s][i].paso # "RESERVAR_INVENTARIO"
        /\ TransaccionesDe(s, "APROBADA") \cup TransaccionesDe(s, "RECHAZADA") = {}
        /\ stock_disponible[pedidos[s].producto_id] = stockInicial[pedidos[s].producto_id]

\* C13: re-applying a response is a no-op: however often a response is delivered,
\* the step log of a saga holds each step at most once.
C13_ReaplicarNoOp ==
  \A s \in Sagas :
    \A i \in DOMAIN saga_estados[s], j \in DOMAIN saga_estados[s] :
      saga_estados[s][i].paso = saga_estados[s][j].paso => i = j

\* the reasons a compensation may carry
Razones == {"INVENTARIO_NO_DISPONIBLE", "PAGO_RECHAZADO", "ERROR_INTERNO"}

\* C19: once the compensation of a saga is complete (status CANCELADA and the
\* COMPENSACION step logged), some step of its log carries the reason of the
\* compensation in its error field.
C19_RazonEnLog ==
  \A s \in SagasUsadas :
    (/\ pedidos[s].estado = SagaState.CANCELADA
     /\ \E i \in DOMAIN saga_estados[s] : saga_estados[s][i].paso = "COMPENSACION") =>
      \E i \in DOMAIN saga_estados[s] : saga_estados[s][i].error_message \in Razones

\* the step takes handler h of pedidos / of inventario one await further
OrqAvanza(h) == CopiesIn(h, orqH') < CopiesIn(h, orqH)
InvAvanza(h) == CopiesIn(h, invH') < CopiesIn(h, invH)
\* after the step, handler h is at position pc
OrqLlega(h, pc) ==
  CopiesIn([h EXCEPT !.pc = pc], orqH') > CopiesIn([h EXCEPT !.pc = pc], orqH)
\* the step publishes exactly one command for saga s, with this event and payload
Emite(s, evento, payload) ==
  saga_events' = Append(saga_events, [sagaId |-> s, evento |-> evento, payload |-> payload])

\* C14: compensation procedure. Every compensation, whatever the status of the
\* saga and whichever steps completed, does in this order and one at a time: set
\* COMPENSANDO, emit COMPENSAR_PAGO, emit LIBERAR_INVENTARIO, set CANCELADA, log
\* COMPENSACION/COMPLETADO; nothing is read from pedidos_responses in between.
C14_ProcedimientoCompensacion ==
  [][\A h \in BagToSet(orqH) :
       (h.razon # NULL /\ OrqAvanza(h)) =>
         LET s == h.msg.sagaId IN
           /\ pedidos_responses' = pedidos_responses \/ h.pc = "ack"
           /\ h.pc = "compensando" =>
                /\ pedidos' = [pedidos EXCEPT ![s].estado = SagaState.COMPENSANDO]
                /\ UNCHANGED <<saga_events, saga_estados>>
                /\ OrqLlega(h, "compensarPago")
           /\ h.pc = "compensarPago" =>
                /\ Emite(s, "COMPENSAR_PAGO", [razon |-> h.razon])
                /\ UNCHANGED <<pedidos, saga_estados>>
                /\ OrqLlega(h, "liberarInventario")
           /\ h.pc = "liberarInventario" =>
                /\ Emite(s, "LIBERAR_INVENTARIO", [razon |-> h.razon])
                /\ UNCHANGED <<pedidos, saga_estados>>
                /\ OrqLlega(h, "cancelada")
           /\ h.pc = "cancelada" =>
                /\ pedidos' = [pedidos EXCEPT ![s].estado = SagaState.CANCELADA]
                /\ UNCHANGED <<saga_events, saga_estados>>
                /\ OrqLlega(h, "pasoCompensacion")
           /\ h.pc = "pasoCompensacion" =>
                /\ saga_estados' =
                     [saga_estados EXCEPT ![s] =
                        Append(@, [paso |-> "COMPENSACION", estado |-> "COMPLETADO",
                                   payload |-> NULL, error_message |-> NULL])]
                /\ UNCHANGED <<saga_events, pedidos>>
                /\ OrqLlega(h, "ack")
           /\ h.pc \in {"compensando", "compensarPago", "liberarInventario", "cancelada",
                        "pasoCompensacion", "ack"}]_vars

\* C14 witness: the compensation of a saga whose reservation was refused (no
\* payment ever ran) is complete and the order is CANCELADA while its
\* LIBERAR_INVENTARIO command is still queued, unhandled by any participant.
C14_Witness ==
  \E h \in BagToSet(orqH) :
    /\ h.msg.evento = "INVENTARIO_RESERVADO" /\ ~h.msg.success
    /\ h.pc = "ack"
    /\ pedidos[h.msg.sagaId].estado = SagaState.CANCELADA
    /\ saga_estados[h.msg.sagaId][Len(saga_estados[h.msg.sagaId])].paso = "COMPENSACION"
    /\ \E i \in DOMAIN saga_events :
         /\ saga_events[i].evento = "LIBERAR_INVENTARIO"
         /\ saga_events[i].sagaId = h.msg.sagaId

\* the step, the status and the command the routing of a successful response
\* must give
PasoEsperado(evento) ==
  CASE evento = "INVENTARIO_RESERVADO" -> "RESERVAR_INVENTARIO"
    [] evento = "PAGO_PROCESADO" -> "PROCESAR_PAGO"
    [] evento = "PEDIDO_CONFIRMADO" -> "CONFIRMAR_PEDIDO"
EstadoEsperado(evento) ==
  CASE evento = "INVENTARIO_RESERVADO" -> "INVENTARIO_RESERVADO"
    [] evento = "PAGO_PROCESADO" -> "PAGO_PROCESADO"
    [] evento = "PEDIDO_CONFIRMADO" -> "COMPLETADA"
ComandoEsperado(evento) ==
  CASE evento = "INVENTARIO_RESERVADO" -> "PROCESAR_PAGO"
    [] evento = "PAGO_PROCESADO" -> "CONFIRMAR_PEDIDO"

\* C15: success routing. The handling of a successful INVENTARIO_RESERVADO
\* (PAGO_PROCESADO) response logs RESERVAR_INVENTARIO (PROCESAR_PAGO) as
\* COMPLETADO, then sets the status INVENTARIO_RESERVADO (PAGO_PROCESADO), then
\* emits exactly one PROCESAR_PAGO (CONFIRMAR_PEDIDO) with the payload of the
\* response; that of PEDIDO_CONFIRMADO logs CONFIRMAR_PEDIDO, then sets
\* COMPLETADA and emits nothing; none emits a compensation command.
C15_SuccessRouting ==
  [][\A h \in BagToSet(orqH) :
       (\/ h.msg.evento \in {"INVENTARIO_RESERVADO", "PAGO_PROCESADO"} /\ h.msg.success
        \/ h.msg.evento = "PEDIDO_CONFIRMADO") =>
         LET s == h.msg.sagaId
             e == h.msg.evento IN
           /\ h.pc \in {"paso", "estado", "publicar", "ack"}
           /\ (h.pc = "paso" /\ OrqAvanza(h)) =>
                /\ saga_estados' =
                     [saga_estados EXCEPT ![s] =
                        Append(@, [paso |-> PasoEsperado(e), estado |-> "COMPLETADO",
                                   payload |-> NULL, error_message |-> NULL])]
                /\ UNCHANGED <<pedidos, saga_events>>
                /\ OrqLlega(h, "estado")
           /\ (h.pc = "estado" /\ OrqAvanza(h)) =>
                /\ pedidos' = [pedidos EXCEPT ![s].estado = EstadoEsperado(e)]
                /\ UNCHANGED <<saga_estados, saga_events>>
                /\ OrqLlega(h, IF e = "PEDIDO_CONFIRMADO" THEN "ack" ELSE "publicar")
           /\ (h.pc = "publicar" /\ OrqAvanza(h)) =>
                /\ e # "PEDIDO_CONFIRMADO"
                /\ Emite(s, ComandoEsperado(e), h.msg.payload)
                /\ UNCHANGED <<saga_estados, pedidos>>
                /\ OrqLlega(h, "ack")
           /\ (h.pc = "ack" /\ OrqAvanza(h)) =>
                UNCHANGED <<saga_estados, pedidos, saga_events>>]_vars

\* C15 witness: the three successful responses of a saga were handled one after
\* the other: the log holds the four steps in order, the order is COMPLETADA and
\* the command queue holds the three forward commands and nothing else.
C15_Witness ==
  \E s \in SagasUsadas :
    /\ pedidos[s].estado = SagaState.COMPLETADA
    /\ Len(saga_estados[s]) = 4
    /\ saga_estados[s][2].paso = "RESERVAR_INVENTARIO"
    /\ saga_estados[s][3].paso = "PROCESAR_PAGO"
    /\ saga_estados[s][4].paso = "CONFIRMAR_PEDIDO"
    /\ Len(saga_events) = 3
    /\ saga_events[2].evento = "PROCESAR_PAGO"
    /\ saga_events[3].evento = "CONFIRMAR_PEDIDO"
    /\ orqH = EmptyBag

\* the reason the routing of a failed response must give
RazonEsperada(evento) ==
  IF evento = "INVENTARIO_RESERVADO" THEN "INVENTARIO_NO_DISPONIBLE" ELSE "PAGO_RECHAZADO"

\* C16: failure routing. The handling of an INVENTARIO_RESERVADO or PAGO_PROCESADO
\* response with success = false is a compensation with reason
\* INVENTARIO_NO_DISPONIBLE, respectively PAGO_RECHAZADO: it logs no step but
\* COMPENSACION, sets no status but COMPENSANDO and CANCELADA and emits no command
\* but COMPENSAR_PAGO and LIBERAR_INVENTARIO, each carrying that reason.
C16_FailureRouting ==
  [][\A h \in BagToSet(orqH) :
       (/\ h.msg.evento \in {"INVENTARIO_RESERVADO", "PAGO_PROCESADO"}
        /\ ~h.msg.success) =>
         LET s == h.msg.sagaId IN
           /\ h.razon = RazonEsperada(h.msg.evento)
           /\ h.pc \notin {"paso", "estado", "publicar"}
           /\ OrqAvanza(h) =>
                /\ pedidos'[s].estado \in {pedidos[s].estado, SagaState.COMPENSANDO,
                                           SagaState.CANCELADA}
                /\ \/ saga_estados' = saga_estados
                   \/ /\ Len(saga_estados'[s]) = Len(saga_estados[s]) + 1
                      /\ saga_estados'[s][Len(saga_estados'[s])].paso = "COMPENSACION"
                /\ \/ saga_events' = saga_events
                   \/ Emite(s, "COMPENSAR_PAGO", [razon |-> RazonEsperada(h.msg.evento)])
                   \/ Emite(s, "LIBERAR_INVENTARIO", [razon |-> RazonEsperada(h.msg.evento)])]_vars

\* C16 witness: the handling of a rejected payment has gone through the whole
\* compensation and the order is CANCELADA.
C16_Witness ==
  \E h \in BagToSet(orqH) :
    /\ h.msg.evento = "PAGO_PROCESADO" /\ ~h.msg.success
    /\ h.pc = "ack" /\ h.razon = "PAGO_RECHAZADO"
    /\ pedidos[h.msg.sagaId].estado = SagaState.CANCELADA

\* the reservation h has read, under the row lock, a stock lower than it asks for
Insuficiente(h) ==
  /\ h.msg.evento = "RESERVAR_INVENTARIO"
  /\ ProductoExiste(h.msg.payload.productoId)
  /\ h.lock = h.msg.payload.productoId
  /\ h.msg.payload.cantidad > stock_disponible[h.msg.payload.productoId]

\* C20: a reservation of more units than the product has available fails without
\* mutation: it goes to ROLLBACK, leaves stock and reservations as they are and
\* answers INVENTARIO_RESERVADO with success = false.
C20_ReservaInsuficiente ==
  [][\A h \in BagToSet(invH) :
       /\ Insuficiente(h) => h.pc = "rollback"
       /\ (h.pc = "rollback" /\ InvAvanza(h)) =>
            /\ UNCHANGED <<stock_disponible, reservas_temporales>>
            /\ CopiesIn([h EXCEPT !.lock = 0, !.success = FALSE, !.pc = "responder"], invH') > 0
       /\ (h.pc = "responder" /\ ~h.success /\ InvAvanza(h)) =>
            /\ UNCHANGED <<stock_disponible, reservas_temporales>>
            /\ Len(pedidos_responses') = Len(pedidos_responses) + 1
            /\ LET r == pedidos_responses'[Len(pedidos_responses')] IN
                 /\ r.sagaId = h.msg.sagaId
                 /\ r.evento = "INVENTARIO_RESERVADO"
                 /\ r.success = FALSE]_vars

\* C20 witness: a reservation of more units than the product has was answered
\* with a failure, and stock and reservations are what they were.
C20_Witness ==
  \E i \in DOMAIN pedidos_responses :
    LET r == pedidos_responses[i] IN
      /\ r.evento = "INVENTARIO_RESERVADO" /\ ~r.success
      /\ pedidos[r.sagaId].cantidad > stockInicial[pedidos[r.sagaId].producto_id]
      /\ stock_disponible = stockInicial
      /\ reservas_temporales = <<>>

\* the commands queued for saga s
ComandosDe(s) == {i \in DOMAIN saga_events : saga_events[i].sagaId = s}
\* the requests being served for saga s
PeticionesDe(s) == {h \in BagToSet(httpH) : h.sagaId = s}

\* C17: start saga. An accepted request creates one order row in INICIADA under a
\* saga id no order had, with the product and quantity of the request; once it
\* has answered, the order is INICIADA, the log of the saga is the one step
\* CREAR_PEDIDO/COMPLETADO and saga_events holds exactly one command of the saga,
\* the RESERVAR_INVENTARIO published by the request with its product id,
\* quantity, order id and payment method.
C17_StartSaga ==
  [][/\ \A s \in SagasUsadas' \ SagasUsadas :
          /\ pedidos'[s].estado = SagaState.INICIADA
          /\ \E h \in PeticionesDe(s)' :
               /\ h.body.productoId = pedidos'[s].producto_id
               /\ h.body.cantidad = pedidos'[s].cantidad
               /\ h.body.pedidoId = s
          /\ ComandosDe(s)' = {} /\ saga_estados'[s] = <<>>
     /\ \A h \in BagToSet(httpH) :
          (h.pc = "publicar" /\ CopiesIn(h, httpH') < CopiesIn(h, httpH)) =>
            /\ Emite(h.sagaId, "RESERVAR_INVENTARIO", h.body)
            /\ BagCardinality(httpH') = BagCardinality(httpH) - 1
     /\ \A s \in SagasUsadas' :
          PeticionesDe(s)' = {} =>
            /\ pedidos'[s].estado = SagaState.INICIADA
            /\ saga_estados'[s] = <<[paso |-> "CREAR_PEDIDO", estado |-> "COMPLETADO",
                                     payload |-> NULL, error_message |-> NULL]>>
            /\ Cardinality(ComandosDe(s)') = 1
            /\ \A i \in ComandosDe(s)' :
                 /\ saga_events'[i].evento = "RESERVAR_INVENTARIO"
                 /\ saga_events'[i].payload.productoId = pedidos'[s].producto_id
                 /\ saga_events'[i].payload.cantidad = pedidos'[s].cantidad
                 /\ saga_events'[i].payload.pedidoId = s
                 /\ saga_events'[i].payload.metodoPago \in MetodosPago \cup {NULL}]_vars

\* C17 witness: every request was accepted and has answered although no
\* participant ever ran: two orders INICIADA, two commands queued.
C17_Witness ==
  /\ solicitudes = 0 /\ httpH = EmptyBag
  /\ SagasUsadas = Sagas
  /\ \A s \in Sagas : pedidos[s].estado = SagaState.INICIADA /\ Cardinality(ComandosDe(s)) = 1
  /\ pedidos_responses = <<>>

\* C18: start-saga validation. A request that lacks a required field creates
\* nothing: no request being served and no queued RESERVAR_INVENTARIO command is
\* without its payment method (nor, a fortiori, product id or quantity).
C18_Validacion ==
  /\ \A h \in BagToSet(httpH) : h.body.metodoPago # NULL
  /\ \A i \in DOMAIN saga_events :
       saga_events[i].evento = "RESERVAR_INVENTARIO" =>
         saga_events[i].payload.metodoPago # NULL

\* C12: faults while handling a response. No exception leaves the handler of a
\* response: whatever await rejects, in the switch or in the compensation
\* itself, the handler goes on to compensate with ERROR_INTERNO and to ack, so
\* no handler is ever left with its exception propagated and its saga as it was.
C12_FalloContenido ==
  \A h \in BagToSet(orqH) : h.pc # "propagada"

\* C21: in every state, no saga has more than one APROBADA transaction, also
\* when a PROCESAR_PAGO command or an INVENTARIO_RESERVADO response is
\* delivered more than once.
C21_UnaAprobada ==
  \A s \in Sagas : Cardinality(TransaccionesDe(s, "APROBADA")) <= 1

PagAvanza(h) == CopiesIn(h, pagH') < CopiesIn(h, pagH)
\* the other handlers of pagos that work for the saga of h
OtrosPagos(h) ==
  {g \in BagToSet(pagH) : g.msg.sagaId = h.msg.sagaId /\ (g # h \/ CopiesIn(h, pagH) > 1)}

\* C22: payment reversal.  Every step of compensarPago(sagaId) changes at most
\* APROBADA rows of that saga, into REVERTIDA, and inserts nothing; when the
\* saga has no APROBADA row it changes nothing; and when it completes with no
\* other handler of pagos at work for the saga, no transaction of the saga is
\* APROBADA.
C22_Reversion ==
  [][\A h \in BagToSet(pagH) :
       (h.msg.evento = "COMPENSAR_PAGO" /\ PagAvanza(h) /\ h.pc \in {"buscar", "revertir"}) =>
         /\ Len(transacciones') = Len(transacciones)
         /\ \A t \in DOMAIN transacciones :
              transacciones'[t] # transacciones[t] =>
                /\ transacciones[t].saga_id = h.msg.sagaId
                /\ transacciones[t].estado = "APROBADA"
                /\ transacciones'[t] = [transacciones[t] EXCEPT !.estado = "REVERTIDA"]
         /\ TransaccionesDe(h.msg.sagaId, "APROBADA") = {} => UNCHANGED transacciones
         /\ (CopiesIn([h EXCEPT !.pc = "ack"], pagH') > CopiesIn([h EXCEPT !.pc = "ack"], pagH)
               /\ OtrosPagos(h) = {}) =>
              TransaccionesDe(h.msg.sagaId, "APROBADA")' = {}]_vars

\* after the step, handler h of pagos has become g
PagLlega(h, g) == CopiesIn(g, pagH') > CopiesIn(g, pagH)
MetodoValido(h) == h.msg.evento = "PROCESAR_PAGO" /\ h.msg.payload.metodoPago \in metodosValidos
\* the PAGO_PROCESADO responses that answer a command with a valid method
RespuestasValidas ==
  {i \in DOMAIN pedidos_responses :
     /\ pedidos_responses[i].evento = "PAGO_PROCESADO"
     /\ pedidos_responses[i].payload.metodoPago \in metodosValidos}

\* C23: payment.  The handling of a PROCESAR_PAGO with a valid method appends
\* exactly one row for the saga, APROBADA or RECHAZADA, then sends exactly one
\* PAGO_PROCESADO whose success flag is true exactly when that row is APROBADA,
\* and does nothing else; once every command is handled there are as many such
\* responses as rows.
C23_UnaTransaccionUnaRespuesta ==
  [][/\ \A h \in BagToSet(pagH) :
          (MetodoValido(h) /\ PagAvanza(h)) =>
            /\ h.pc = "procesar" =>
                 /\ Len(transacciones') = Len(transacciones) + 1
                 /\ SubSeq(transacciones', 1, Len(transacciones)) = transacciones
                 /\ LET row == transacciones'[Len(transacciones')] IN
                      /\ row.saga_id = h.msg.sagaId
                      /\ row.estado \in {"APROBADA", "RECHAZADA"}
                      /\ PagLlega(h, [h EXCEPT !.pc = "responder",
                                               !.success = (row.estado = "APROBADA")])
                 /\ UNCHANGED pedidos_responses
            /\ h.pc = "responder" =>
                 /\ pedidos_responses' =
                      Append(pedidos_responses,
                             [sagaId |-> h.msg.sagaId, evento |-> "PAGO_PROCESADO",
                              success |-> h.success, payload |-> h.msg.payload,
                              servicio |-> "pagos"])
                 /\ PagLlega(h, [h EXCEPT !.pc = "ack"])
                 /\ UNCHANGED transacciones
            /\ h.pc = "ack" => UNCHANGED <<transacciones, pedidos_responses>>
            /\ h.pc \in {"procesar", "responder", "ack"}
     /\ (pagH' = EmptyBag /\ saga_events' = <<>>) =>
          /\ Cardinality(RespuestasValidas') = Len(transacciones')
          /\ \A s \in Sagas :
               Cardinality({i \in RespuestasValidas' : /\ pedidos_responses'[i].sagaId = s
                                                       /\ pedidos_responses'[i].success})
                 = Cardinality(TransaccionesDe(s, "APROBADA")')
                     + Cardinality(TransaccionesDe(s, "REVERTIDA")')]_vars

\* C23 witness: every command is handled; one payment was approved and answered
\* with success, another was refused by the gateway and answered without.
C23_Witness ==
  /\ pagH = EmptyBag /\ saga_events = <<>>
  /\ \E t, u \in DOMAIN transacciones :
       /\ transacciones[t].estado = "APROBADA"
       /\ transacciones[u].estado = "RECHAZADA"
  /\ \E i, j \in RespuestasValidas :
       pedidos_responses[i].success /\ ~pedidos_responses[j].success

\* the allow-list of payment methods
ListaPermitida == {"tarjeta_credito", "tarjeta_debito", "pse", "efectivo"}

\* C24: payment method outside the allow-list.  The handling of such a
\* PROCESAR_PAGO never writes transacciones and sends PAGO_PROCESADO with
\* success false; and the orchestrator starts every PAGO_PROCESADO with
\* success false as a compensation with reason PAGO_RECHAZADO.
C24_MetodoNoPermitido ==
  [][/\ \A h \in BagToSet(pagH) :
          (/\ h.msg.evento = "PROCESAR_PAGO"
           /\ h.msg.payload.metodoPago \notin ListaPermitida
           /\ PagAvanza(h)) =>
            /\ UNCHANGED transacciones
            /\ h.pc = "procesar" =>
                 PagLlega(h, [h EXCEPT !.pc = "responder", !.success = FALSE])
            /\ h.pc = "responder" =>
                 pedidos_responses' =
                   Append(pedidos_responses,
                          [sagaId |-> h.msg.sagaId, evento |-> "PAGO_PROCESADO",
                           success |-> FALSE, payload |-> h.msg.payload,
                           servicio |-> "pagos"])
     /\ (/\ pedidos_responses # <<>>
         /\ pedidos_responses' = Tail(pedidos_responses)
         /\ Head(pedidos_responses).evento = "PAGO_PROCESADO"
         /\ ~Head(pedidos_responses).success) =>
          LET g == [msg |-> Head(pedidos_responses), pc |-> "compensando",
                    razon |-> "PAGO_RECHAZADO"] IN
            CopiesIn(g, orqH') = CopiesIn(g, orqH) + 1]_vars

\* C24 witness: an order whose stock was reserved is CANCELADA after its payment
\* by a method outside the list was refused: no transaction was ever written.
C24_Witness ==
  \E s \in Sagas :
    /\ pedidos[s].estado = SagaState.CANCELADA
    /\ \E i \in DOMAIN saga_estados[s] : saga_estados[s][i].paso = "RESERVAR_INVENTARIO"
    /\ \E i \in DOMAIN saga_estados[s] : saga_estados[s][i].paso = "COMPENSACION"
    /\ transacciones = <<>>
    /\ saga_events = <<>> /\ pedidos_responses = <<>>
    /\ orqH = EmptyBag /\ pagH = EmptyBag /\ invH = EmptyBag

\* after the step, handler h of inventario has become g
InvLlega(h, g) == CopiesIn(g, invH') > CopiesIn(g, invH)
\* the handler of a LIBERAR_INVENTARIO that found, or is about to find, no
\* ACTIVA reservation of its saga
SinReservaActiva(h) ==
  /\ h.msg.evento = "LIBERAR_INVENTARIO"
  /\ h.reserva = 0
  /\ h.pc = "buscar" => ReservasActivas(h.msg.sagaId) = {}
  /\ h.pc \in {"buscar", "commit", "ack"}

\* C25: release without an ACTIVA reservation.  Every step of the handling of
\* a LIBERAR_INVENTARIO whose saga has no ACTIVA reservation when it is looked
\* up leaves stock, reservations and responses as they are, and the handling
\* runs to its acknowledgement: lookup, commit, ack.
C25_LiberarSinReserva ==
  [][\A h \in BagToSet(invH) :
       (SinReservaActiva(h) /\ InvAvanza(h)) =>
         /\ UNCHANGED <<stock_disponible, reservas_temporales, pedidos_responses>>
         /\ h.pc = "buscar" => InvLlega(h, [h EXCEPT !.pc = "commit"])
         /\ h.pc = "commit" => InvLlega(h, [h EXCEPT !.pc = "ack"])
         /\ h.pc = "ack" => BagCardinality(invH') = BagCardinality(invH) - 1]_vars

\* C25 witness: two releases found nothing to release and are done, one for a
\* saga whose reservation is EXPIRADA and one for a saga that never reserved;
\* the stock is what it was.
C25_Witness ==
  \E h, g \in BagToSet(invH) :
    /\ h.msg.evento = "LIBERAR_INVENTARIO" /\ h.reserva = 0 /\ h.pc = "ack"
    /\ g.msg.evento = "LIBERAR_INVENTARIO" /\ g.reserva = 0 /\ g.pc = "ack"
    /\ \E r \in DOMAIN reservas_temporales :
         /\ reservas_temporales[r].saga_id = h.msg.sagaId
         /\ reservas_temporales[r].estado = "EXPIRADA"
    /\ \A r \in DOMAIN reservas_temporales : reservas_temporales[r].saga_id # g.msg.sagaId
    /\ stock_disponible = stockInicial

\* the orchestrator started a compensation of saga s
CompensacionIniciada(s) ==
  \/ pedidos[s].estado \in {SagaState.COMPENSANDO, SagaState.CANCELADA}
  \/ \E h \in BagToSet(orqH) : h.msg.sagaId = s /\ h.razon # NULL
  \/ \E i \in DOMAIN saga_estados[s] : saga_estados[s][i].paso = "COMPENSACION"

\* C26: the stock of a paid saga stays reserved.  While a saga has an APROBADA
\* transaction and no compensation of it was started, nothing its reservations
\* hold was added back to the stock, by a release or by the expiry sweep.
C26_PagadaNoReclamada ==
  \A s \in Sagas :
    (TransaccionesDe(s, "APROBADA") # {} /\ ~CompensacionIniciada(s)) =>
      \A r \in DOMAIN reservas_temporales :
        reservas_temporales[r].saga_id = s =>
          /\ reservas_temporales[r].devLiberar = 0
          /\ reservas_temporales[r].devSweep = 0

\* C29: in every state a saga has at most one ACTIVA reservation, also when
\* its RESERVAR_INVENTARIO command is delivered more than once.
C29_UnaReservaActiva ==
  \A s \in Sagas : Cardinality(ReservasActivas(s)) <= 1

\* C30: saga creation is all-or-nothing.  Once POST /pedidos has answered, the
\* saga id it generated has either no order row, no step and no command, or an
\* order row INICIADA, its CREAR_PEDIDO step and its RESERVAR_INVENTARIO
\* command.
C30_TodoONada ==
  \A s \in Sagas :
    PeticionesDe(s) = {} =>
      \/ /\ pedidos[s] = NoRow
         /\ saga_estados[s] = <<>>
         /\ ComandosDe(s) = {}
      \/ /\ pedidos[s].estado = SagaState.INICIADA
         /\ Len(saga_estados[s]) = 1
         /\ Cardinality(ComandosDe(s)) = 1

\* C27: only forward commands are answered.  No step of the handling of a
\* LIBERAR_INVENTARIO by inventario or of a COMPENSAR_PAGO by pagos publishes
\* anything on pedidos_responses, also when an await of that handling rejects.
C27_CompensacionSinRespuesta ==
  [][/\ \A h \in BagToSet(invH) :
          (h.msg.evento = "LIBERAR_INVENTARIO" /\ InvAvanza(h)) =>
            UNCHANGED pedidos_responses
     /\ \A h \in BagToSet(pagH) :
          (h.msg.evento = "COMPENSAR_PAGO" /\ PagAvanza(h)) =>
            UNCHANGED pedidos_responses]_vars

\* the handler of a RESERVAR_INVENTARIO that committed its reservation and the
\* decrement of the stock
Reservo(h) ==
  /\ h.msg.evento = "RESERVAR_INVENTARIO"
  /\ h.expira_en # 0
  /\ h.pc \in {"responder", "responderFallo"}

\* C28: the inventory response is faithful.  The handler of a
\* RESERVAR_INVENTARIO publishes success = true only after it committed a
\* reservation of the saga with the decrement, and success = false only when it
\* committed nothing - also when its first attempt to publish rejected.
C28_RespuestaFiel ==
  [][\A h \in BagToSet(invH) :
       (/\ h.msg.evento = "RESERVAR_INVENTARIO"
        /\ InvAvanza(h)
        /\ Len(pedidos_responses') = Len(pedidos_responses) + 1) =>
         LET resp == pedidos_responses'[Len(pedidos_responses')] IN
           /\ resp.evento = "INVENTARIO_RESERVADO"
           /\ resp.sagaId = h.msg.sagaId
           /\ resp.success =>
                /\ Reservo(h)
                /\ \E r \in DOMAIN reservas_temporales :
                     /\ reservas_temporales[r].saga_id = h.msg.sagaId
                     /\ reservas_temporales[r].expira_en = h.expira_en
           /\ ~resp.success => ~Reservo(h)]_vars

\* the commands the step appends to saga_events
Emitidos ==
  {saga_events'[i] : i \in (Len(saga_events) + 1)..Len(saga_events')}

\* C31: forward commands follow the happy path.  Whenever a PROCESAR_PAGO is
\* put on saga_events, inventario has committed a reservation of that saga;
\* whenever a CONFIRMAR_PEDIDO is put on saga_events, pagos has persisted an
\* APROBADA transaction of that saga (which a later reversal may have turned
\* REVERTIDA).
C31_OrdenComandos ==
  [][Len(saga_events') > Len(saga_events) =>
       \A c \in Emitidos :
         /\ c.evento = "PROCESAR_PAGO" =>
              \E r \in DOMAIN reservas_temporales : reservas_temporales[r].saga_id = c.sagaId
         /\ c.evento = "CONFIRMAR_PEDIDO" =>
              \E t \in DOMAIN transacciones :
                /\ transacciones[t].saga_id = c.sagaId
                /\ transacciones[t].estado \in {"APROBADA", "REVERTIDA"}]_vars

\* C31 witness: CONFIRMAR_PEDIDO is on the queue for a saga whose reservation
\* is ACTIVA and whose transaction is APROBADA.
C31_Witness ==
  \E i \in DOMAIN saga_events :
    /\ saga_events[i].evento = "CONFIRMAR_PEDIDO"
    /\ ReservasActivas(saga_events[i].sagaId) # {}
    /\ TransaccionesDe(saga_events[i].sagaId, "APROBADA") # {}
    /\ pedidos[saga_events[i].sagaId].estado = SagaState.PAGO_PROCESADO

\* the log holds this step of saga s as COMPLETADO
Registrado(log, s, paso) ==
  \E i \in DOMAIN log[s] : log[s][i].paso = paso /\ log[s][i].estado = "COMPLETADO"

\* the step that the transition into a forward status logs
PasoDelEstado(estado) ==
  CASE estado = "INVENTARIO_RESERVADO" -> "RESERVAR_INVENTARIO"
    [] estado = "PAGO_PROCESADO" -> "PROCESAR_PAGO"
    [] estado = "COMPLETADA" -> "CONFIRMAR_PEDIDO"

\* C32: step log and status agree on the forward path.  After every step, an
\* order in INVENTARIO_RESERVADO, PAGO_PROCESADO or COMPLETADA has in its log
\* the COMPLETADO step of the transition into that status and CREAR_PEDIDO; and
\* every step leaves the steps already logged where and as they are.
C32_LogYEstado ==
  [][/\ \A s \in Sagas :
          pedidos'[s].estado \in {"INVENTARIO_RESERVADO", "PAGO_PROCESADO", "COMPLETADA"} =>
            /\ Registrado(saga_estados', s, PasoDelEstado(pedidos'[s].estado))
            /\ Registrado(saga_estados', s, "CREAR_PEDIDO")
     /\ \A s \in Sagas :
          /\ Len(saga_estados'[s]) >= Len(saga_estados[s])
          /\ SubSeq(saga_estados'[s], 1, Len(saga_estados[s])) = saga_estados[s]]_vars

\* C32 witness: an order is COMPLETADA and its log is the four forward steps in
\* the order they were taken.
C32_Witness ==
  \E s \in Sagas :
    /\ pedidos[s].estado = SagaState.COMPLETADA
    /\ [i \in DOMAIN saga_estados[s] |-> saga_estados[s][i].paso] =
         <<"CREAR_PEDIDO", "RESERVAR_INVENTARIO", "PROCESAR_PAGO", "CONFIRMAR_PEDIDO">>

====
